---------------------------- MODULE Spec2Model ----------------------------
(***************************************************************************)
(* Model of src/Checker.py: the link-checking orchestrator                 *)
(* EnhancedLinkedInChecker (credential store, session handling, the        *)
(* classifier of process_single_link, the failure/cooldown policy and the  *)
(* run loop), with the stop request of the presentation layer and the      *)
(* wall clock as its environment.                                          *)
(*                                                                         *)
(* Time is counted in minutes.  A timestamp is kept as its distance to the *)
(* wall clock: rate_limit_cooldown_until holds                             *)
(* (self.rate_limit_cooldown_until - datetime.now()), PASSED once the      *)
(* timestamp lies in the past.  Every comparison the code makes            *)
(* (now < until, until - now) is a function of that distance.              *)
(*                                                                         *)
(* Strings are TLA+ strings; the two typographic apostrophes U+2018 and    *)
(* U+2019 are written "~" and "^", the Greek URL keyword is transliterated.*)
(***************************************************************************)
EXTENDS Integers, Sequences, FiniteSets, TLC

(***************************************************************************)
(* Bounds of the model.                                                    *)
(***************************************************************************)
MaxLinks == 5
\* The minutes that pass in one step of the clock.
ClockStep == 3
\* The calls on the credential store: the largest usage counter a rotation
\* is called with, and the largest error counter it is called with.
MaxChecked == 2
MaxSwitchErrors == 5
\* The checker is run again while it has navigated to fewer links than this.
MaxNavigated == 3
\* The log records written and the lines put in the log view in LogSpec.
MaxLogLines == 3

(***************************************************************************)
(* Program constants.                                                      *)
(***************************************************************************)
RATE_LIMIT_COOLDOWN_MINUTES == 5
MAX_CONSECUTIVE_ERRORS_BEFORE_COOLDOWN == 5

\* Python's None where the value is a string.
None == "None"
\* An Optional value of another type: Nothing, or Some(x).
Nothing == << >>
Some(x) == <<x>>
\* A timestamp that lies in the past (datetime.now() is later).
PASSED == -1

(***************************************************************************)
(* String helpers: Python's `in`, str.lower, str.replace, str.strip.       *)
(***************************************************************************)
Contains(s, kw) ==
    \E i \in 1..(Len(s) - Len(kw) + 1) : SubSeq(s, i, i + Len(kw) - 1) = kw

AnyIn(kws, s) == \E kw \in kws : Contains(s, kw)

UpperToLower ==
    [c \in {"A","B","C","D","E","F","G","H","I","J","K","L","M","N","O","P",
            "Q","R","S","T","U","V","W","X","Y","Z"} |->
       CASE c = "A" -> "a" [] c = "B" -> "b" [] c = "C" -> "c" [] c = "D" -> "d"
         [] c = "E" -> "e" [] c = "F" -> "f" [] c = "G" -> "g" [] c = "H" -> "h"
         [] c = "I" -> "i" [] c = "J" -> "j" [] c = "K" -> "k" [] c = "L" -> "l"
         [] c = "M" -> "m" [] c = "N" -> "n" [] c = "O" -> "o" [] c = "P" -> "p"
         [] c = "Q" -> "q" [] c = "R" -> "r" [] c = "S" -> "s" [] c = "T" -> "t"
         [] c = "U" -> "u" [] c = "V" -> "v" [] c = "W" -> "w" [] c = "X" -> "x"
         [] c = "Y" -> "y" [] c = "Z" -> "z"]

RECURSIVE MapChars(_, _, _)
MapChars(s, i, f) ==
    IF i > Len(s) THEN ""
    ELSE LET c == SubSeq(s, i, i)
         IN  (IF c \in DOMAIN f THEN f[c] ELSE c) \o MapChars(s, i + 1, f)

Lower(s) == MapChars(s, 1, UpperToLower)

\* s.replace(U+2019, "'").replace(U+2018, "'")
NormalizeApostrophes(s) ==
    MapChars(s, 1, [c \in {"^", "~"} |-> "'"])

RECURSIVE Strip(_)
Strip(s) ==
    IF Len(s) = 0 THEN s
    ELSE IF SubSeq(s, 1, 1) = " " THEN Strip(SubSeq(s, 2, Len(s)))
    ELSE IF SubSeq(s, Len(s), Len(s)) = " " THEN Strip(SubSeq(s, 1, Len(s) - 1))
    ELSE s

(***************************************************************************)
(* read_links: re.search(r'https?://[^\s/$.?#].[^\s]*', stripped_line).    *)
(***************************************************************************)
StartsWithAt(s, i, kw) ==
    /\ i + Len(kw) - 1 <= Len(s)
    /\ SubSeq(s, i, i + Len(kw) - 1) = kw

SchemeLenAt(s, i) ==
    IF StartsWithAt(s, i, "http://") THEN 7
    ELSE IF StartsWithAt(s, i, "https://") THEN 8
    ELSE 0

\* The scheme, one character outside [\s/$.?#], and one more character.
UrlStartsAt(s, i) ==
    LET n == SchemeLenAt(s, i)
    IN  /\ n > 0
        /\ i + n + 1 <= Len(s)
        /\ SubSeq(s, i + n, i + n) \notin {" ", "/", "$", ".", "?", "#"}

\* [^\s]* is greedy: the match runs to the character before the next blank.
UrlEndFrom(s, j) ==
    LET blanks == {k \in j..Len(s) : SubSeq(s, k, k) = " "}
    IN  IF blanks = {} THEN Len(s)
        ELSE (CHOOSE k \in blanks : \A m \in blanks : k <= m) - 1

ExtractUrl(stripped_line) ==
    LET starts == {i \in 1..Len(stripped_line) : UrlStartsAt(stripped_line, i)}
    IN  IF starts = {} THEN None
        ELSE LET i == CHOOSE k \in starts : \A m \in starts : k <= m
                 n == SchemeLenAt(stripped_line, i)
             IN  SubSeq(stripped_line, i, UrlEndFrom(stripped_line, i + n + 2))


Prefix(s, n) == IF Len(s) <= n THEN s ELSE SubSeq(s, 1, n)

(***************************************************************************)
(* process_single_link, lines 783-876: the classification of the page the  *)
(* driver shows after driver.get.  A page is                               *)
(*   [url, title, source, buttons, find_raises]:                           *)
(* driver.current_url, driver.title, driver.page_source, the resolved text *)
(* of each element find_elements returns, and whether find_elements raises.*)
(***************************************************************************)
rate_limit_keywords ==
    {"security verification", "are you a human", "too many requests",
     "temporarily restricted", "checkpoint", "verify your identity",
     "unusual activity"}

offer_unavailable_keywords ==
    {"offer is no longer available", "this offer has expired",
     "sorry, this offer isn't available", "unable to claim this offer",
     "this link is no longer active", "link has expired",
     "this gift is no longer available", "this trial is no longer available",
     "you may have already redeemed this gift", "offer already redeemed",
     "no longer valid", "not available at this time", "cannot be claimed",
     "already been redeemed"}

gift_redeem_url_patterns ==
    {"/redeem", "/gifts/claim", "/sales/gift/claim", "/premium/redeem",
     "linkedin.com/checkout/redeem", "linkedin.com/checkout/gift"}

gift_redeem_query_params ==
    {"redeemToken", "claimToken", "midToken", "msgPayload", "giftId",
     "trk=li_gift"}

trial_keywords_on_page ==
    {"try premium for free", "start your free month", "1-month free trial",
     "get premium free", "free trial", "claim your free month",
     "unlock premium free", "try for free", "activate your gift",
     "you've received a gift", "claim your gift", "redeem your gift",
     "accept your gift", "start free trial", "confirm your free trial",
     "free premium"}

qualifying_url_keywords ==
    {"premium", "gift", "redeem", "checkout", "sales/ energopoiisi-dorou"}

action_button_keywords ==
    {"activate", "claim", "start free trial", "redeem now", "accept gift",
     "try now", "get started"}

non_trial_url_patterns ==
    {"/feed/", "/my-items/", "/jobs/", "/company/", "/in/", "/notifications/",
     "/messaging/"}

page_issue_keywords ==
    {"page not found", "content unavailable", "oops, something went wrong",
     "this page isn't available", "error processing your request"}

\* line 784-785: title and source are lower-cased, "" when absent.
PageTitle(page) == Lower(page.title)
PageSourceLower(page) == Lower(page.source)

\* Variant of IsRateLimitPage: the title is not looked at.
IsRateLimitPageBySource(page) ==
    AnyIn(rate_limit_keywords, PageSourceLower(page))

\* line 790
IsRateLimitPage(page) ==
    \/ AnyIn(rate_limit_keywords, PageTitle(page))
    \/ AnyIn(rate_limit_keywords, PageSourceLower(page))

\* line 796
IsAuthwall(page) ==
    \/ Contains(page.url, "authwall")
    \/ Contains(page.url, "login.")
    \/ Contains(page.url, "/login")

\* Variant of IsOfferUnavailable: the page source is not lower-cased.
IsOfferUnavailableCaseSensitive(page) ==
    AnyIn({NormalizeApostrophes(kw) : kw \in offer_unavailable_keywords},
          NormalizeApostrophes(page.source))

\* lines 808-811
IsOfferUnavailable(page) ==
    AnyIn({NormalizeApostrophes(kw) : kw \in offer_unavailable_keywords},
          NormalizeApostrophes(PageSourceLower(page)))

\* lines 824-826
is_gift_redeem_url(page) == AnyIn(gift_redeem_url_patterns, Lower(page.url))
has_gift_redeem_param(page) == AnyIn(gift_redeem_query_params, page.url)
found_trial_keyword_on_page(page) ==
    AnyIn(trial_keywords_on_page, PageSourceLower(page))

\* Variant of BaseConfidence: the test of line 832 comes before that of
\* line 830.
BaseConfidenceEitherFirst(page) ==
    IF is_gift_redeem_url(page) \/ has_gift_redeem_param(page) THEN "MEDIUM"
    ELSE IF /\ found_trial_keyword_on_page(page)
            /\ \/ Contains(Lower(page.url), "premium")
               \/ Contains(Lower(page.url), "checkout")
         THEN IF AnyIn({"premium", "gift", "trial"}, PageTitle(page))
              THEN "HIGH" ELSE "MEDIUM"
    ELSE "LOW"

\* lines 828-837
BaseConfidence(page) ==
    IF is_gift_redeem_url(page) /\ has_gift_redeem_param(page) THEN "HIGH"
    ELSE IF is_gift_redeem_url(page) \/ has_gift_redeem_param(page) THEN "MEDIUM"
    ELSE IF /\ found_trial_keyword_on_page(page)
            /\ \/ Contains(Lower(page.url), "premium")
               \/ Contains(Lower(page.url), "checkout")
         THEN IF AnyIn({"premium", "gift", "trial"}, PageTitle(page))
              THEN "HIGH" ELSE "MEDIUM"
    ELSE "LOW"

\* lines 839-840
IsWorkingOffer(page) ==
    /\ \/ is_gift_redeem_url(page)
       \/ has_gift_redeem_param(page)
       \/ found_trial_keyword_on_page(page)
    /\ AnyIn(qualifying_url_keywords, Lower(page.url))

\* lines 843-853: the first button whose text holds an action keyword, 0 when
\* there is none or find_elements raises.
ActionButtonIndex(page) ==
    LET hits == {i \in 1..Len(page.buttons) :
                    AnyIn(action_button_keywords, Lower(page.buttons[i]))}
    IN  IF page.find_raises \/ hits = {} THEN 0
        ELSE CHOOSE i \in hits : \A j \in hits : i <= j

\* lines 854-855
WorkingConfidence(page) ==
    IF ActionButtonIndex(page) # 0 /\ BaseConfidence(page) # "HIGH"
    THEN "MEDIUM" ELSE BaseConfidence(page)

\* lines 829, 849
WorkingDetails(page) ==
    IF ActionButtonIndex(page) = 0
    THEN "Potential trial/gift indicators found."
    ELSE "Potential trial/gift indicators found." \o " Action button: '"
         \o Prefix(Lower(page.buttons[ActionButtonIndex(page)]), 30) \o "'."

\* lines 861-863
IsRegularPage(page) ==
    /\ AnyIn(non_trial_url_patterns, Lower(page.url))
    /\ ~ \/ is_gift_redeem_url(page)
         \/ has_gift_redeem_param(page)
         \/ Contains(Lower(page.url), "premium")
         \/ Contains(Lower(page.url), "gift")

\* line 869
IsPageIssue(page) == AnyIn(page_issue_keywords, PageSourceLower(page))

(***************************************************************************)
(* The outcome of lines 789-876 for a page: the fields of the LinkResult   *)
(* and what the branch does to consecutive_error_count ("inc": += 1,       *)
(* "reset": = 0) and to stats['rate_limit_suspected'].                     *)
(***************************************************************************)
Outcome(status, details, confidence, count, rate) ==
    [status |-> status, result_details |-> details, confidence |-> confidence,
     count |-> count, rate |-> rate]

\* Variant of ClassifyPage: the working-offer signals of lines 839-859 are
\* looked at before the offer-unavailable text of lines 811-814.
ClassifyPageSignalsFirst(page) ==
    IF IsRateLimitPage(page)
    THEN Outcome("RATE_LIMIT_SUSPECTED",
                 "Security/Rate limit page (Title: " \o PageTitle(page) \o ")",
                 None, "inc", 1)
    ELSE IF IsAuthwall(page)
    THEN Outcome("FAILED", "Authwall/Login required or session issue.",
                 None, "inc", 0)
    ELSE IF IsWorkingOffer(page)
    THEN Outcome("WORKING", WorkingDetails(page), WorkingConfidence(page),
                 "reset", 0)
    ELSE IF IsOfferUnavailable(page)
    THEN Outcome("FAILED", "Offer unavailable, expired, or already redeemed.",
                 None, "reset", 0)
    ELSE Outcome("FAILED",
                 "Inconclusive: No specific trial/gift offer or unavailable message detected.",
                 None, "reset", 0)

ClassifyPage(page) ==
    IF IsRateLimitPage(page)
    THEN Outcome("RATE_LIMIT_SUSPECTED",
                 "Security/Rate limit page (Title: " \o PageTitle(page) \o ")",
                 None, "inc", 1)
    ELSE IF IsAuthwall(page)
    THEN Outcome("FAILED", "Authwall/Login required or session issue.",
                 None, "inc", 0)
    ELSE IF IsOfferUnavailable(page)
    THEN Outcome("FAILED", "Offer unavailable, expired, or already redeemed.",
                 None, "reset", 0)
    ELSE IF IsWorkingOffer(page)
    THEN Outcome("WORKING", WorkingDetails(page), WorkingConfidence(page),
                 "reset", 0)
    ELSE IF IsRegularPage(page)
    THEN Outcome("FAILED", "Regular LinkedIn page, not a trial/gift.",
                 None, "reset", 0)
    ELSE IF IsPageIssue(page)
    THEN Outcome("FAILED",
                 "Page not found, content unavailable, or processing error.",
                 None, "reset", 0)
    ELSE Outcome("FAILED",
                 "Inconclusive: No specific trial/gift offer or unavailable message detected.",
                 None, "reset", 0)

(***************************************************************************)
(* Lines 878-892: the exception handlers of process_single_link.  An       *)
(* exception is [type, msg]; type is "TimeoutException",                   *)
(* "WebDriverException" or "Exception", msg is str(e).                     *)
(***************************************************************************)
\* Variant of IsSessionCrash: the test of line 885 is missing.
NoExceptionIsCrash(e) == FALSE

\* Variant of IsSessionCrash: every exception is taken for a session crash.
EveryExceptionIsCrash(e) == TRUE

\* line 885
IsSessionCrash(e) ==
    /\ e.type = "WebDriverException"
    /\ \/ Contains(Lower(e.msg), "target crashed")
       \/ Contains(Lower(e.msg), "session deleted")
       \/ Contains(Lower(e.msg), "disconnected")

ExceptionOutcome(e) ==
    IF e.type = "TimeoutException"
    THEN Outcome("ERROR", "Timeout loading page.", None, "inc", 0)
    ELSE IF e.type = "WebDriverException"
    THEN Outcome("ERROR", "WebDriver error: " \o Prefix(e.msg, 100), None, "inc", 0)
    ELSE Outcome("ERROR", "Unexpected error: " \o e.msg, None, "inc", 0)


(***************************************************************************)
(* The inputs the model draws from.                                        *)
(***************************************************************************)
Emails == {"", "a@x", "b@x"}
Passwords == {"", "pw"}
\* The arguments of the calls on the credential store alone.
StoreEmails == {"", "a@x", "b@x", "c@x"}
StorePasswords == {"", "pw", "pw2"}

\* The constructor calls: account_switch_threshold, headless, gui_instance.
Constructions ==
    {[account_switch_threshold |-> 0, headless |-> TRUE, gui |-> FALSE],
     [account_switch_threshold |-> 2, headless |-> FALSE, gui |-> TRUE]}

\* Lines of the input file: with a URL, without one, blank.
UrlLine(n) ==
    CASE n = 1 -> "https://www.linkedin.com/gifts/claim?giftId=1"
      [] n = 2 -> " see https://lnkd.in/g2 "
      [] n = 3 -> "https://www.linkedin.com/redeem/3"
      [] n = 4 -> "4: http://www.linkedin.com/premium/4"
      [] OTHER -> "https://www.linkedin.com/feed/"

\* A file is its lines, or is missing (exists = FALSE).
File(lines) == [exists |-> TRUE, lines |-> lines]
MissingFile == [exists |-> FALSE, lines |-> << >>]
ShortFiles ==
    {MissingFile, File(<<"no link here", "">>),
     File(<<"first line", UrlLine(1), "", UrlLine(2), UrlLine(3)>>)}
LongFile == File([i \in 1..MaxLinks |-> UrlLine(i)])
\* The input of the runs that probe one page of the classifier.
ProbeFile ==
    File(<<"check this: https://www.linkedin.com/gifts/claim?giftId=55",
           UrlLine(3)>>)

\* gui_additional_accounts when the start is requested: the accounts entered
\* in the setup tab, which may repeat the primary email.
GuiAdditionalAccounts ==
    {<< >>,
     <<[email |-> "b@x", password |-> "pw"]>>,
     <<[email |-> "a@x", password |-> "pw"], [email |-> "b@x", password |-> "pw"]>>}

\* What the remote site shows for a probe.
WorkingPage ==
    [url |-> "https://www.linkedin.com/premium/redeem?redeemToken=t",
     title |-> "Redeem", source |-> "Claim your gift",
     buttons |-> <<"Redeem now">>, find_raises |-> FALSE]

RunPages ==
    {WorkingPage,
     [url |-> "https://www.linkedin.com/premium/redeem?redeemToken=t",
      title |-> "Premium", source |-> "This offer has expired",
      buttons |-> << >>, find_raises |-> FALSE],
     [url |-> "https://www.linkedin.com/authwall?trk=x",
      title |-> "Sign Up", source |-> "join now",
      buttons |-> << >>, find_raises |-> FALSE],
     [url |-> "https://www.linkedin.com/checkpoint/challenge/1",
      title |-> "Security Verification", source |-> "are you a human",
      buttons |-> << >>, find_raises |-> FALSE]}

\* The pages the classifier is probed with: every combination of a final
\* URL, a title, a page source and the elements find_elements returns.
ProbeUrls ==
    {"https://www.linkedin.com/gifts/claim?giftId=55",
     "https://www.linkedin.com/Premium/Redeem?redeemToken=t",
     "https://www.linkedin.com/redeem/3",
     "https://www.linkedin.com/in/x?claimToken=abc",
     "https://www.linkedin.com/feed/?trk=li_gift",
     "https://www.linkedin.com/premium/products",
     "https://www.linkedin.com/gift/offer",
     "https://www.linkedin.com/login?session_redirect=/redeem/3&giftId=1",
     "https://www.linkedin.com/feed/",
     "https://www.linkedin.com/help"}

ProbeTitles == {"LinkedIn Premium", "LinkedIn", "Security Verification"}

ProbeSources ==
    {"Claim your gift", "This offer has expired",
     "This Offer Has Expired. Start free trial",
     "Sorry, this offer isn^t available", "Are you a human?",
     "Page not found", "Welcome"}

ProbeElements ==
    {[buttons |-> << >>, find_raises |-> FALSE],
     [buttons |-> <<"Home", "Claim now">>, find_raises |-> FALSE],
     [buttons |-> <<"Redeem now">>, find_raises |-> TRUE]}

ClassifyPages ==
    {[url |-> url, title |-> title, source |-> source,
      buttons |-> e.buttons, find_raises |-> e.find_raises] :
        url \in ProbeUrls, title \in ProbeTitles, source \in ProbeSources,
        e \in ProbeElements}

\* What driver.get and the reads after it raise.
PageLoadTimeout == [type |-> "TimeoutException", msg |-> "timeout"]
TargetCrashed == [type |-> "WebDriverException", msg |-> "Message: target crashed"]
StaleElement == [type |-> "Exception", msg |-> "stale element reference"]
RunExceptions == {PageLoadTimeout, TargetCrashed, StaleElement}

LoginOutcomes ==
    {"feed", "challenge_resolved", "challenge_unresolved", "too_many_attempts",
     "rejected", "timeout", "timeout_too_many", "error"}

SaveOutcomes == {"ok", "write_error", "mkdir_error"}

\* datetime.now().strftime('%Y%m%d_%H%M%S') (line 1028) when _save_results
\* calls get_output_file_paths, and in a later second
SaveSecond == "20240101_120000"
LaterSecond == "20240101_120001"


VARIABLES
    \* constructor arguments
    account_switch_threshold, headless, gui,
    \* fields of EnhancedLinkedInChecker
    accounts, current_account_index, links_checked_on_current_account,
    primary_email, primary_password, running, should_stop, links_to_process,
    working_links, failed_links, stats, driver, rate_limit_cooldown_until,
    consecutive_error_count,
    \* the thread executing run: its position, the loop index, the last
    \* result, the time left of the time.sleep it is in
    pc, link_index, result, sleep_remaining,
    \* the environment: what the remote site answers during this run, the
    \* remote browser sessions, the files written, the completion posted to
    \* the presentation layer
    site, session, session_account, browsers, saved, gui_completed,
    \* history: the lines navigated to, the stop request, the loop index at
    \* which the driver recovery gave up, the value consecutive_error_count
    \* had when the probe began whose result is being accounted (0 at other
    \* times), the number of probes in a row that returned ERROR or
    \* RATE_LIMIT_SUSPECTED
    navigated, stop_request, recovery_failed_at, errors_before_probe,
    error_streak,
    \* fields of LinkedInCheckerGUI: result_paths, the text of
    \* status_info_label, and the main window (open, waiting in the join of
    \* on_closing, destroyed)
    result_paths, status_info_label, window,
    \* logging: log_queue of the presentation layer, the lines of its log
    \* view, and the records written by the stream and file handlers
    log_queue, log_view, log_file

cfgvars == <<account_switch_threshold, headless, gui>>
storevars == <<accounts, current_account_index,
               links_checked_on_current_account, primary_email,
               primary_password>>
bufvars == <<links_to_process, working_links, failed_links, stats>>
sessvars == <<driver, session, session_account, browsers>>
histvars == <<navigated, stop_request, recovery_failed_at,
              errors_before_probe, error_streak>>
guivars == <<result_paths, status_info_label, window>>
logvars == <<log_queue, log_view, log_file>>
vars == <<cfgvars, storevars, bufvars, sessvars, histvars, running,
          should_stop, rate_limit_cooldown_until, consecutive_error_count, pc,
          link_index, result, sleep_remaining, site, saved, gui_completed,
          guivars, logvars>>

\* No file written yet; ran tells whether _save_results has returned.
NotSaved ==
    [ran |-> FALSE, io |-> "ok", written |-> {}, working_file |-> << >>,
     json_file |-> << >>, paths |-> Nothing]

\* process_completed not posted yet; status is the final status the
\* presentation layer shows for the call, paths its argument.
NotCompleted ==
    [posted |-> FALSE, driver |-> FALSE, saved |-> FALSE, status |-> None,
     paths |-> Nothing]

\* stop_processing not called yet.
NoStop == [made |-> FALSE, pc |-> "idle", link_index |-> 0]

ZeroStats ==
    [total_processed |-> 0, working_found |-> 0, failed_or_invalid |-> 0,
     rate_limit_suspected |-> 0]

\* __init__, lines 491-528, with the usage counter at checked
InitWith(checked) ==
    /\ \E args \in Constructions :
         /\ account_switch_threshold = args.account_switch_threshold
         /\ headless = args.headless
         /\ gui = args.gui
    /\ accounts = << >>
    /\ current_account_index = 0
    /\ links_checked_on_current_account = checked
    /\ primary_email = None
    /\ primary_password = None
    /\ running = FALSE
    /\ should_stop = FALSE
    /\ links_to_process = << >>
    /\ working_links = << >>
    /\ failed_links = << >>
    /\ stats = ZeroStats
    /\ driver = FALSE
    /\ rate_limit_cooldown_until = Nothing
    /\ consecutive_error_count = 0
    /\ pc = "idle"
    /\ link_index = 0
    /\ result = Nothing
    /\ sleep_remaining = 0
    /\ site = {}
    /\ session = "UNINITIALIZED"
    /\ session_account = Nothing
    /\ browsers = 0
    /\ saved = NotSaved
    /\ gui_completed = NotCompleted
    /\ navigated = << >>
    /\ stop_request = NoStop
    /\ recovery_failed_at = 0
    /\ errors_before_probe = 0
    /\ error_streak = 0
    /\ result_paths = Nothing
    /\ status_info_label = ""
    /\ window = "open"
    /\ log_queue = << >>
    /\ log_view = << >>
    /\ log_file = << >>

\* __init__, lines 491-528
Init == InitWith(0)

(***************************************************************************)
(* Credential Rotation Store.  The checker is configured before its run    *)
(* (start_processing, lines 1618-1630).                                    *)
(***************************************************************************)
Account(email, password) == [email |-> email, password |-> password]

\* Variant of AccountsAfterSetCredentials: line 536 is missing.
AccountsInsertedOnly(accs, email, password) ==
    <<Account(email, password)>> \o accs

\* lines 536-537
AccountsAfterSetCredentials(accs, email, password) ==
    <<Account(email, password)>> \o SelectSeq(accs, LAMBDA acc : acc.email # email)

\* set_credentials, lines 530-540
SetCredentials(email, password) ==
    /\ pc = "idle"
    /\ IF email = "" \/ password = ""
       THEN UNCHANGED storevars
       ELSE /\ primary_email' = email
            /\ primary_password' = password
            /\ accounts' = AccountsAfterSetCredentials(accounts, email, password)
            /\ current_account_index' = 0
            /\ UNCHANGED links_checked_on_current_account
    /\ UNCHANGED <<logvars, guivars,
                   cfgvars, bufvars, sessvars, histvars, running, should_stop,
                   rate_limit_cooldown_until, consecutive_error_count, pc,
                   link_index, result, sleep_remaining, site, saved,
                   gui_completed>>

\* Variant of AddIsIgnored: the lookup of line 549 is missing.
AddIsIgnoredWithoutLookup(accs, primary, email, password) ==
    \/ email = "" \/ password = ""
    \/ primary = email

\* lines 543-551: the calls add_additional_account ignores
AddIsIgnored(accs, primary, email, password) ==
    \/ email = "" \/ password = ""
    \/ primary = email
    \/ \E i \in 1..Len(accs) : accs[i].email = email

\* lines 543-553: the account list add_additional_account leaves
AccountsAfterAdd(accs, primary, email, password) ==
    IF AddIsIgnored(accs, primary, email, password)
    THEN accs
    ELSE Append(accs, Account(email, password))

\* add_additional_account, lines 542-553
AddAdditionalAccount(email, password) ==
    /\ pc = "idle"
    /\ accounts' = AccountsAfterAdd(accounts, primary_email, email, password)
    /\ UNCHANGED <<logvars, guivars,
                   cfgvars, current_account_index,
                   links_checked_on_current_account, primary_email,
                   primary_password, bufvars, sessvars, histvars, running,
                   should_stop, rate_limit_cooldown_until,
                   consecutive_error_count, pc, link_index, result,
                   sleep_remaining, site, saved, gui_completed>>

IndexInBounds(accs, index) == 0 <= index /\ index < Len(accs)

\* _get_current_creds, lines 555-568: the email it returns, None for (None, None)
CurrentEmail(accs, index) ==
    IF accs = << >> THEN None
    ELSE IF IndexInBounds(accs, index) THEN accs[index + 1].email
    ELSE IF primary_email # None /\ primary_password # None
            /\ accs[1].email = primary_email
         THEN accs[1].email
    ELSE None

\* _get_current_creds, lines 562-565: the index it leaves
IndexAfterCurrentCreds(accs, index) ==
    IF accs # << >> /\ ~IndexInBounds(accs, index)
       /\ primary_email # None /\ primary_password # None
    THEN 0 ELSE index

(***************************************************************************)
(* Session Controller.  The subroutines of run are functions of a context  *)
(* c: the fields they read and write (driver, current_account_index as     *)
(* index, links_checked_on_current_account as checked,                     *)
(* consecutive_error_count as errors), the browser they drive (session,    *)
(* session_account, browsers) and their return value (ok).  The dialogs    *)
(* they post (show_error_async, show_info_async) change no state of the    *)
(* checker and are left out.                                               *)
(***************************************************************************)
Context ==
    [driver |-> driver, session |-> session, session_account |-> session_account,
     browsers |-> browsers, index |-> current_account_index,
     checked |-> links_checked_on_current_account,
     errors |-> consecutive_error_count, ok |-> TRUE]

\* _setup_driver, lines 570-620: started tells whether the browser starts
SetupDriver(c, started) ==
    IF started
    THEN [c EXCEPT !.driver = TRUE, !.browsers = @ + 1,
                   !.session = "AUTHENTICATING", !.session_account = Nothing,
                   !.ok = TRUE]
    ELSE [c EXCEPT !.ok = FALSE]

\* _quit_driver, lines 1079-1088
QuitDriver(c) ==
    IF c.driver
    THEN [c EXCEPT !.driver = FALSE, !.browsers = @ - 1,
                   !.session = "UNINITIALIZED", !.session_account = Nothing]
    ELSE c

\* lines 697-713: the login reaches the feed, at once or after the challenge
\* dialog, which is shown only with a presentation layer and a visible browser
LoginSucceeds(outcome) ==
    \/ outcome = "feed"
    \/ outcome = "challenge_resolved" /\ gui /\ ~headless

\* lines 714-717 and 730-735: what a login adds to consecutive_error_count
LoginErrorBump(outcome) ==
    IF outcome \in {"too_many_attempts", "timeout_too_many"}
    THEN MAX_CONSECUTIVE_ERRORS_BEFORE_COOLDOWN ELSE 0

\* _login_linkedin, lines 649-738
LoginLinkedin(c, outcome) ==
    LET email == CurrentEmail(accounts, c.index)
        index == IndexAfterCurrentCreds(accounts, c.index)
    IN  IF ~c.driver \/ email = None
        THEN [c EXCEPT !.index = index, !.ok = FALSE]
        ELSE [c EXCEPT !.index = index,
                       !.session = IF LoginSucceeds(outcome) THEN "ACTIVE" ELSE "FAILED",
                       !.session_account = IF LoginSucceeds(outcome) THEN Some(index) ELSE Nothing,
                       !.errors = @ + LoginErrorBump(outcome),
                       !.ok = LoginSucceeds(outcome)]

\* Variant of NextAccountIndex: no wraparound.
NextAccountIndexUnwrapped(index, n) == index + 1

\* line 627
NextAccountIndex(index, n) == (index + 1) % n

\* Variant of LinksCheckedAfterSwitch: line 635 is missing.
LinksCheckedKept(checked) == checked

\* line 635
LinksCheckedAfterSwitch(checked) == 0

\* _switch_to_next_account, lines 622-647
SwitchToNextAccount(c, started, outcome) ==
    IF Len(accounts) <= 1 THEN [c EXCEPT !.ok = TRUE]
    ELSE LET next == NextAccountIndex(c.index, Len(accounts))
             new_email == CurrentEmail(accounts, next)
             c1 == [c EXCEPT !.index = IndexAfterCurrentCreds(accounts, next)]
         IN  IF new_email = None THEN [c1 EXCEPT !.ok = FALSE]
             ELSE LET c2 == QuitDriver([c1 EXCEPT !.checked =
                                           LinksCheckedAfterSwitch(c1.checked)])
                      c3 == SetupDriver(c2, started)
                  IN  IF c3.ok THEN LoginLinkedin(c3, outcome) ELSE c3

\* What one call of _switch_to_next_account can leave.
Rotations(c) ==
    {SwitchToNextAccount(c, started, outcome) :
        started \in BOOLEAN, outcome \in LoginOutcomes}

\* The fields of a context written back to the variables.
Commit(c) ==
    /\ driver' = c.driver
    /\ session' = c.session
    /\ session_account' = c.session_account
    /\ browsers' = c.browsers
    /\ current_account_index' = c.index
    /\ links_checked_on_current_account' = c.checked
    /\ consecutive_error_count' = c.errors

(***************************************************************************)
(* Link Source.                                                            *)
(***************************************************************************)
LinkTask(url, line_num, raw_line) ==
    [url |-> url, line_num |-> line_num, raw_line |-> raw_line]

\* read_links, lines 749-756, from line i of the file on
RECURSIVE LinksFrom(_, _)
LinksFrom(file, i) ==
    IF i > Len(file) THEN << >>
    ELSE LET stripped_line == Strip(file[i])
             url == ExtractUrl(stripped_line)
         IN  (IF url = None THEN << >>
              ELSE <<LinkTask(url, i, stripped_line)>>) \o LinksFrom(file, i + 1)

\* read_links, lines 749-756, for each input file
LinksOfFile ==
    [file \in ShortFiles \cup {LongFile, ProbeFile} |->
       LinksFrom(file.lines, 1)]

\* read_links, lines 740-765
ReadLinks(file) == IF ~file.exists THEN << >> ELSE LinksOfFile[file]

(***************************************************************************)
(* process_single_link, lines 767-892: what a probe returns.               *)
(***************************************************************************)
LinkResult(link, outcome, final_url) ==
    [link |-> link.url, line_num |-> link.line_num, status |-> outcome.status,
     result_details |-> outcome.result_details, final_url |-> final_url,
     confidence |-> outcome.confidence]

\* lines 777-876: driver.get returns and the page is classified; page is
\* Some(the page the driver showed), Nothing when none was read
Shown(page) ==
    [outcome |-> ClassifyPage(page), final_url |-> page.url, crash |-> FALSE,
     navigated |-> TRUE, page |-> Some(page)]

\* lines 878-892: driver.get or a read after it raises
Raised(e) ==
    [outcome |-> ExceptionOutcome(e), final_url |-> None,
     crash |-> IsSessionCrash(e), navigated |-> TRUE, page |-> Nothing]

\* line 773
CancelledOutcome ==
    [outcome |-> Outcome("CANCELLED", "Process cancelled by user", None, "keep", 0),
     final_url |-> None, crash |-> FALSE, navigated |-> FALSE, page |-> Nothing]

\* line 775
NoDriverOutcome ==
    [outcome |-> Outcome("ERROR", "WebDriver not available", None, "keep", 0),
     final_url |-> None, crash |-> FALSE, navigated |-> FALSE, page |-> Nothing]

\* What the remote site does with a navigation during one run: any of the
\* pages and exceptions, or, for the long file, a working page, a page-load
\* timeout or a crash of the browser.
FullSite == {Shown(page) : page \in RunPages} \cup {Raised(e) : e \in RunExceptions}
FlakySite == {Shown(WorkingPage), Raised(PageLoadTimeout), Raised(TargetCrashed)}

\* A run: the input file and the remote site.
Scenarios ==
    {[file |-> file, site |-> FullSite] : file \in ShortFiles}
    \cup {[file |-> LongFile, site |-> FlakySite]}

(***************************************************************************)
(* Orchestrator Loop: run, lines 894-1025, one action per stretch of code  *)
(* between two reads of should_stop or of the clock.                       *)
(***************************************************************************)
\* process_completed, lines 1739-1743: the final status shown
FinalStatus(stop) == IF stop THEN "Stopped by User" ELSE "Completed"

\* gui.process_completed as posted by the run thread (lines 915, 922, 933,
\* 1025): whether a driver is held and whether _save_results has run at the
\* moment of the call, and the status the main loop shows when it handles
\* the call (lines 1731-1743), from the should_stop the run leaves (stop).
\* The calls of lines 915, 923 and 933 pass no paths.
Completion(driver_held, results_saved, stop) ==
    [posted |-> TRUE, driver |-> driver_held, saved |-> results_saved,
     status |-> FinalStatus(stop), paths |-> Nothing]

\* The thread is started on run (start_processing, lines 1625-1636, after
\* set_credentials has returned True), or run is called on a checker
\* without any account.
Start ==
    /\ pc = "idle"
    /\ accounts = << >> \/ primary_email # None
    /\ pc' = "start"
    /\ UNCHANGED <<logvars, guivars,
                   cfgvars, storevars, bufvars, sessvars, histvars, running,
                   should_stop, rate_limit_cooldown_until,
                   consecutive_error_count, link_index, result,
                   sleep_remaining, site, saved, gui_completed>>

\* lines 907-909
AccountsAtRunStart(accs) ==
    IF accs = << >> /\ primary_email # None /\ primary_password # None
    THEN <<Account(primary_email, primary_password)>>
    ELSE accs

\* Variant of IndexAtRunStart: line 900 is missing.
IndexKeptAtRunStart(index) == index

\* line 900
IndexAtRunStart(index) == 0

\* Variant of RunAborts: the test of line 919 is missing.
RunAbortsWithoutAccounts(accs, links) == accs = << >>

\* lines 907-916 and 919-924: run returns before any driver is set up
RunAborts(accs, links) == accs = << >> \/ links = << >>

\* Variant of StatsAtRunStart: line 901 is missing.
StatsKeptAtRunStart(st) == st

\* line 901
StatsAtRunStart(st) == ZeroStats

\* lines 895-924, for the input file and the remote site of one of the
\* scenarios
RunBeginOn(scenarios) ==
    /\ pc = "start"
    /\ \E scenario \in scenarios :
         LET accs == AccountsAtRunStart(accounts)
             links == IF accs = << >> THEN links_to_process
                      ELSE ReadLinks(scenario.file)
             aborts == RunAborts(accs, links)
         IN  /\ accounts' = accs
             /\ links_to_process' = links
             /\ site' = IF aborts THEN site ELSE scenario.site
             /\ running' = ~aborts
             /\ pc' = IF aborts THEN "done" ELSE "login"
             /\ gui_completed' = IF gui /\ aborts THEN Completion(driver, FALSE, FALSE)
                                 ELSE gui_completed
    /\ should_stop' = FALSE
    /\ rate_limit_cooldown_until' = Nothing
    /\ consecutive_error_count' = 0
    /\ links_checked_on_current_account' = 0
    /\ current_account_index' = IndexAtRunStart(current_account_index)
    /\ stats' = StatsAtRunStart(stats)
    /\ working_links' = << >>
    /\ failed_links' = << >>
    /\ link_index' = 1
    /\ UNCHANGED <<logvars, guivars,
                   cfgvars, primary_email, primary_password, sessvars,
                   histvars, result, sleep_remaining, saved>>

\* lines 895-924
RunBegin == RunBeginOn(Scenarios)

\* lines 926 and 964: _setup_driver() and _login_linkedin()
Restart(c, started, outcome) ==
    LET c1 == SetupDriver(c, started)
    IN  IF c1.ok THEN LoginLinkedin(c1, outcome) ELSE c1

\* lines 926-935
InitialLogin ==
    /\ pc = "login"
    /\ \E c \in {Restart(Context, started, outcome) :
                    started \in BOOLEAN, outcome \in LoginOutcomes} :
         IF c.ok
         THEN /\ Commit(c)
              /\ pc' = "loop"
              /\ UNCHANGED <<running, gui_completed>>
         ELSE LET c1 == [c EXCEPT !.index = IndexAfterCurrentCreds(accounts, c.index)]
              IN  /\ Commit(QuitDriver(c1))
                  /\ running' = FALSE
                  /\ gui_completed' = IF gui THEN Completion(c1.driver, FALSE, should_stop)
                                      ELSE gui_completed
                  /\ pc' = "done"
    /\ UNCHANGED <<logvars, guivars,
                   cfgvars, accounts, primary_email, primary_password, bufvars,
                   histvars, should_stop, rate_limit_cooldown_until, link_index,
                   result, sleep_remaining, site, saved>>

\* Variant of CooldownActive: the window is never waited for.
CooldownNeverActive(until) == FALSE

\* line 942: a cooldown window is open and has not elapsed
CooldownActive(until) == until # Nothing /\ until[1] > 0

\* lines 953-955
NeedsRotation(threshold, checked, n) ==
    threshold > 0 /\ checked >= threshold /\ n > 1

\* lines 953-960: the return value of the switch is only logged
ThresholdRotation(c) ==
    IF NeedsRotation(account_switch_threshold, c.checked, Len(accounts))
    THEN Rotations(c) ELSE {c}

\* lines 962-981: ok is FALSE when the loop is left (should_stop = True, break)
DriverRecovery(c) ==
    IF c.driver THEN {[c EXCEPT !.ok = TRUE]}
    ELSE UNION {LET c1 == Restart(c, started, outcome)
                IN  IF c1.ok THEN {c1}
                    ELSE IF Len(accounts) > 1 THEN Rotations(c1)
                    ELSE {c1} :
                started \in BOOLEAN, outcome \in LoginOutcomes}

\* lines 953-981
Prepared(c) == UNION {DriverRecovery(c1) : c1 \in ThresholdRotation(c)}

\* Variant of PrepareStep: the breaks of lines 972-981 are missing.
PrepareStepWithoutBreak(c) ==
    /\ Commit(c)
    /\ should_stop' = should_stop
    /\ recovery_failed_at' = IF c.ok THEN recovery_failed_at ELSE link_index
    /\ pc' = "stopcheck"

\* lines 962-984: the context is written back; a failed recovery sets
\* should_stop and leaves the loop
PrepareStep(c) ==
    /\ Commit(c)
    /\ should_stop' = IF c.ok THEN should_stop ELSE TRUE
    /\ recovery_failed_at' = IF c.ok THEN recovery_failed_at ELSE link_index
    /\ pc' = IF c.ok THEN "stopcheck" ELSE "save"

\* Variant of LoopEnds: the stop check of line 938 is missing.
LoopEndsIgnoringStop(index, n, stop) == index > n

\* lines 937-940: the for loop has no item left, or should_stop is set
LoopEnds(index, n, stop) == index > n \/ stop

\* lines 937-942 and, without an open window, 953-981: the next item of the
\* for loop, the stop check, the comparison of the clock with the window,
\* the rotation on the threshold and the recovery of the driver
LoopHead ==
    /\ pc = "loop"
    /\ IF LoopEnds(link_index, Len(links_to_process), should_stop)
       THEN /\ pc' = "save"
            /\ UNCHANGED <<sessvars, current_account_index,
                           links_checked_on_current_account,
                           consecutive_error_count, should_stop,
                           recovery_failed_at>>
       ELSE IF CooldownActive(rate_limit_cooldown_until)
       THEN /\ pc' = "cooldown"
            /\ UNCHANGED <<sessvars, current_account_index,
                           links_checked_on_current_account,
                           consecutive_error_count, should_stop,
                           recovery_failed_at>>
       ELSE \E c \in Prepared(Context) : PrepareStep(c)
    /\ UNCHANGED <<logvars, guivars,
                   cfgvars, accounts, primary_email, primary_password, bufvars,
                   navigated, stop_request, errors_before_probe, error_streak,
                   running, rate_limit_cooldown_until, link_index, result,
                   sleep_remaining, site, saved, gui_completed>>

\* lines 943-947: remaining_s from a second reading of the clock; time.sleep
\* raises ValueError for a negative length, which ends the thread
CooldownRemaining ==
    /\ pc = "cooldown"
    /\ IF rate_limit_cooldown_until[1] = PASSED
       THEN pc' = "crashed" /\ UNCHANGED sleep_remaining
       ELSE pc' = "sleep" /\ sleep_remaining' = rate_limit_cooldown_until[1]
    /\ UNCHANGED <<logvars, guivars,
                   cfgvars, storevars, bufvars, sessvars, histvars, running,
                   should_stop, rate_limit_cooldown_until,
                   consecutive_error_count, link_index, result, site, saved,
                   gui_completed>>

\* lines 947-981: time.sleep returns once its length has passed; the window
\* and the counter are cleared; then the rotation on the threshold and the
\* recovery of the driver
CooldownWake ==
    /\ pc = "sleep"
    /\ sleep_remaining = 0
    /\ rate_limit_cooldown_until' = Nothing
    /\ \E c \in Prepared([Context EXCEPT !.errors = 0]) : PrepareStep(c)
    /\ UNCHANGED <<logvars, guivars,
                   cfgvars, accounts, primary_email, primary_password, bufvars,
                   navigated, stop_request, errors_before_probe, error_streak,
                   running, link_index, result, sleep_remaining, site, saved,
                   gui_completed>>

\* lines 983-984
StopCheck ==
    /\ pc = "stopcheck"
    /\ pc' = IF should_stop THEN "save" ELSE "probe"
    /\ UNCHANGED <<logvars, guivars,
                   cfgvars, storevars, bufvars, sessvars, histvars, running,
                   should_stop, rate_limit_cooldown_until,
                   consecutive_error_count, link_index, result,
                   sleep_remaining, site, saved, gui_completed>>

\* Variant of CountAfter: the resets of lines 813-875 are missing.
CountAfterWithoutReset(count, effect) ==
    IF effect = "inc" THEN count + 1 ELSE count

\* Variant of CountAfter: the early returns of lines 773 and 775 reset.
CountAfterResetOnReturn(count, effect) ==
    IF effect = "inc" THEN count + 1 ELSE 0

\* lines 792, 798, 813, 858, 865, 871, 875, 880, 884, 891
CountAfter(count, effect) ==
    IF effect = "inc" THEN count + 1
    ELSE IF effect = "reset" THEN 0
    ELSE count

\* lines 793 and 988-998
StatsAfter(st, status, rate) ==
    LET s1 == [st EXCEPT !.rate_limit_suspected = @ + rate,
                         !.total_processed = @ + 1]
    IN  IF status = "WORKING" THEN [s1 EXCEPT !.working_found = @ + 1]
        ELSE IF status = "RATE_LIMIT_SUSPECTED"
        THEN [s1 EXCEPT !.rate_limit_suspected = @ + 1]
        ELSE IF status # "CANCELLED" THEN [s1 EXCEPT !.failed_or_invalid = @ + 1]
        ELSE s1

\* lines 990-992
WorkingAfter(buffer, res) ==
    IF res.status = "WORKING" THEN Append(buffer, res) ELSE buffer

\* lines 993-998
FailedAfter(buffer, res) ==
    IF res.status \notin {"WORKING", "CANCELLED"} THEN Append(buffer, res) ELSE buffer

\* lines 767-892 with answer o, and lines 986-998
ProbeStep(link, o) ==
    LET res == LinkResult(link, o.outcome, o.final_url)
        c0 == [Context EXCEPT
                 !.index = IndexAfterCurrentCreds(accounts, @),
                 !.errors = CountAfter(@, o.outcome.count),
                 !.checked = @ + 1]
        c1 == IF o.crash THEN QuitDriver(c0) ELSE c0
    IN  /\ Commit(c1)
        /\ result' = Some(res)
        /\ errors_before_probe' = consecutive_error_count
        /\ error_streak' = IF res.status \in {"ERROR", "RATE_LIMIT_SUSPECTED"}
                           THEN error_streak + 1 ELSE 0
        /\ navigated' = IF o.navigated THEN Append(navigated, link.line_num)
                        ELSE navigated
        /\ stats' = StatsAfter(stats, res.status, o.outcome.rate)
        /\ working_links' = WorkingAfter(working_links, res)
        /\ failed_links' = FailedAfter(failed_links, res)

\* lines 986-1007
Probe ==
    /\ pc = "probe"
    /\ LET link == links_to_process[link_index]
       IN  IF should_stop THEN ProbeStep(link, CancelledOutcome)
           ELSE IF ~driver THEN ProbeStep(link, NoDriverOutcome)
           ELSE \E o \in site : ProbeStep(link, o)
    /\ pc' = "policy"
    /\ UNCHANGED <<logvars, guivars,
                   cfgvars, accounts, primary_email, primary_password,
                   links_to_process, stop_request, recovery_failed_at, running,
                   should_stop, rate_limit_cooldown_until, link_index,
                   sleep_remaining, site, saved, gui_completed>>

(***************************************************************************)
(* Failure & Cooldown Policy, lines 1009-1018.                             *)
(***************************************************************************)
\* Variant of CooldownDue: == in the place of >=.
CooldownDueAtThreshold(count) == count = MAX_CONSECUTIVE_ERRORS_BEFORE_COOLDOWN

\* line 1009
CooldownDue(count) == count >= MAX_CONSECUTIVE_ERRORS_BEFORE_COOLDOWN

\* Variant of RotatesAfterErrors: the switch threshold is not consulted.
RotatesWithoutThreshold(n, threshold) == n > 1

\* line 1015
RotatesAfterErrors(n, threshold) == n > 1 /\ threshold > 0

\* lines 1009-1015: the window is opened and the counter reset; the for loop
\* goes on to its next item unless a rotation follows
CooldownPolicy ==
    /\ pc = "policy"
    /\ IF CooldownDue(consecutive_error_count)
       THEN /\ rate_limit_cooldown_until' = Some(RATE_LIMIT_COOLDOWN_MINUTES)
            /\ consecutive_error_count' = 0
            /\ IF RotatesAfterErrors(Len(accounts), account_switch_threshold)
               THEN pc' = "errswitch" /\ UNCHANGED link_index
               ELSE pc' = "loop" /\ link_index' = link_index + 1
       ELSE /\ UNCHANGED <<rate_limit_cooldown_until, consecutive_error_count>>
            /\ pc' = "loop"
            /\ link_index' = link_index + 1
    /\ errors_before_probe' = 0
    /\ UNCHANGED <<logvars, guivars,
                   cfgvars, storevars, bufvars, sessvars, navigated,
                   stop_request, recovery_failed_at, error_streak, running,
                   should_stop, result, sleep_remaining, site, saved,
                   gui_completed>>

\* lines 1015-1018: the rotation after repeated errors
ErrorRotation ==
    /\ pc = "errswitch"
    /\ \E c \in Rotations(Context) : Commit(c)
    /\ link_index' = link_index + 1
    /\ pc' = "loop"
    /\ UNCHANGED <<logvars, guivars,
                   cfgvars, accounts, primary_email, primary_password, bufvars,
                   histvars, running, should_stop, rate_limit_cooldown_until,
                   result, sleep_remaining, site, saved, gui_completed>>

(***************************************************************************)
(* Result persistence and the end of run, lines 1020-1025.                 *)
(***************************************************************************)
\* Variant of get_output_file_paths: the names carry no timestamp.
OutputFilePathsWithoutStamp(stamp, working, failed) ==
    [working_file |-> IF working # << >>
                      THEN "linkedin_results_working.txt" ELSE None,
     quick_file |-> IF working # << >>
                    THEN "linkedin_results_quick_copy.txt" ELSE None,
     json_file |-> IF working # << >> \/ failed # << >>
                   THEN "linkedin_results_detailed.json" ELSE None]

\* get_output_file_paths, lines 1027-1034, called when datetime.now()
\* formats as stamp, with the buffers working and failed
get_output_file_paths(stamp, working, failed) ==
    LET base_filename == "linkedin_results_" \o stamp
    IN  [working_file |-> IF working # << >>
                          THEN base_filename \o "_working.txt" ELSE None,
         quick_file |-> IF working # << >>
                        THEN base_filename \o "_quick_copy.txt" ELSE None,
         json_file |-> IF working # << >> \/ failed # << >>
                       THEN base_filename \o "_detailed.json" ELSE None]

\* _save_results, lines 1037-1077: the files written and the paths of line
\* 1041, which line 1077 stores in the result_paths of the presentation
\* layer.  The quick-copy file is written with the working file.  io: every
\* write succeeds, the writes fail (logged, lines 1051, 1061, 1074), or
\* creating the output directory raises (line 1039, outside any try).
SavedFiles(io) ==
    LET all_res == working_links \o failed_links
        written == IF io # "ok" THEN {}
                   ELSE (IF working_links # << >>
                         THEN {"working_file", "quick_file"} ELSE {})
                        \cup (IF all_res # << >> THEN {"json_file"} ELSE {})
    IN  [ran |-> TRUE, io |-> io, written |-> written,
         working_file |-> IF "working_file" \in written THEN working_links ELSE << >>,
         json_file |-> IF "json_file" \in written THEN all_res ELSE << >>,
         paths |-> Some(get_output_file_paths(SaveSecond, working_links,
                                              failed_links))]

\* lines 1020-1025: _save_results, _quit_driver and, with a presentation
\* layer, process_completed with the paths get_output_file_paths returns
\* at line 1025, when the clock shows SaveSecond still or a later second
SaveAndFinish ==
    /\ pc = "save"
    /\ \E io \in SaveOutcomes :
         IF io = "mkdir_error"
         THEN /\ pc' = "crashed"
              /\ UNCHANGED <<saved, sessvars, running, gui_completed,
                             result_paths>>
         ELSE /\ saved' = SavedFiles(io)
              /\ result_paths' = IF gui THEN SavedFiles(io).paths
                                 ELSE result_paths
              /\ LET c == QuitDriver(Context)
                 IN  /\ driver' = c.driver
                     /\ session' = c.session
                     /\ session_account' = c.session_account
                     /\ browsers' = c.browsers
              /\ running' = FALSE
              /\ \E stamp \in {SaveSecond, LaterSecond} :
                   gui_completed' =
                     IF gui
                     THEN [Completion(FALSE, TRUE, should_stop) EXCEPT
                             !.paths = Some(get_output_file_paths(
                                         stamp, working_links, failed_links))]
                     ELSE gui_completed
              /\ pc' = "done"
    /\ UNCHANGED <<logvars, window, status_info_label, cfgvars, storevars,
                   bufvars, histvars, should_stop,
                   rate_limit_cooldown_until, consecutive_error_count,
                   link_index, result, sleep_remaining, site>>

(***************************************************************************)
(* The presentation layer: process_completed on the main thread, the start *)
(* request.                                                                *)
(***************************************************************************)
\* Variant of ThreadAlive: the test of line 1586 is missing.
ThreadNeverAlive(p) == FALSE

\* line 1586: process_thread exists and is alive
ThreadAlive(p) == p \notin {"idle", "done", "crashed"}

\* lines 1629-1630: add_additional_account for each entry from the i-th on
RECURSIVE AccountsAfterAdds(_, _, _, _)
AccountsAfterAdds(accs, primary, extras, i) ==
    IF i > Len(extras) THEN accs
    ELSE AccountsAfterAdds(
           AccountsAfterAdd(accs, primary, extras[i].email, extras[i].password),
           primary, extras, i + 1)

\* start_processing, lines 1585-1640, with the primary email and password
\* and the additional accounts of the setup tab: rejected while the thread
\* of a run is alive (line 1586) and when the primary email or password is
\* missing (line 1613), after the display of the previous results has been
\* cleared (lines 1592 and 1657-1666); otherwise a checker is constructed
\* and configured and its run thread started.  A request after a run has ended constructs
\* a new checker for a new run and is not drawn.
StartProcessing(email, password, extras) ==
    /\ gui
    /\ pc \notin {"done", "crashed"}
    /\ IF ThreadAlive(pc) \/ email = "" \/ password = ""
       THEN UNCHANGED <<storevars, pc>>
       ELSE /\ primary_email' = email
            /\ primary_password' = password
            /\ accounts' = AccountsAfterAdds(
                              AccountsAfterSetCredentials(<< >>, email, password),
                              email, extras, 1)
            /\ current_account_index' = 0
            /\ links_checked_on_current_account' = 0
            /\ pc' = "start"
    /\ IF ThreadAlive(pc)
       THEN UNCHANGED <<result_paths, status_info_label>>
       ELSE result_paths' = Nothing /\ status_info_label' = ""
    /\ UNCHANGED <<logvars, window,
                   cfgvars, bufvars, sessvars, histvars, running, should_stop,
                   rate_limit_cooldown_until, consecutive_error_count,
                   link_index, result, sleep_remaining, site, saved,
                   gui_completed>>

(***************************************************************************)
(* The environment: the stop request and the clock.                        *)
(***************************************************************************)
\* stop_processing, lines 1090-1092, called by stop_gui_processing (line
\* 1671), which then disables the button (line 1672)
StopProcessing ==
    /\ pc \notin {"idle", "done", "crashed"}
    /\ ~stop_request.made
    /\ should_stop' = TRUE
    /\ stop_request' = [made |-> TRUE, pc |-> pc, link_index |-> link_index]
    /\ UNCHANGED <<logvars, guivars,
                   cfgvars, storevars, bufvars, sessvars, navigated,
                   recovery_failed_at, errors_before_probe, error_streak,
                   running, rate_limit_cooldown_until,
                   consecutive_error_count, pc, link_index, result,
                   sleep_remaining, site, saved, gui_completed>>

\* A timestamp whose distance to the clock still matters to the thread at
\* position p: line 942 tells a window that has elapsed (0) from one that
\* has not, line 943 also one that elapsed before the second reading.
TimerRuns(until, p) ==
    /\ until # Nothing
    /\ until[1] > (IF p = "cooldown" THEN PASSED ELSE 0)

\* The distance d of a timestamp after ClockStep minutes, not below floor.
Later(d, floor) == IF d - ClockStep < floor THEN floor ELSE d - ClockStep

\* ClockStep minutes pass.  The run thread sees the clock where it compares it
\* with the window (line 942), where it computes remaining_s (line 943) and
\* in time.sleep (line 947); the time that passes elsewhere is seen there.
Tick ==
    /\ pc \in {"loop", "cooldown", "sleep"}
    /\ \/ TimerRuns(rate_limit_cooldown_until, pc)
       \/ sleep_remaining > 0
    /\ rate_limit_cooldown_until' =
         IF TimerRuns(rate_limit_cooldown_until, pc)
         THEN Some(Later(rate_limit_cooldown_until[1],
                         IF pc = "cooldown" THEN PASSED ELSE 0))
         ELSE rate_limit_cooldown_until
    /\ sleep_remaining' = Later(sleep_remaining, 0)
    /\ UNCHANGED <<logvars, guivars,
                   cfgvars, storevars, bufvars, sessvars, histvars, running,
                   should_stop, consecutive_error_count, pc, link_index,
                   result, site, saved, gui_completed>>

Next ==
    \/ \E email \in Emails, password \in Passwords : SetCredentials(email, password)
    \/ \E email \in Emails, password \in Passwords : AddAdditionalAccount(email, password)
    \/ Start
    \/ \E email \in {"", "a@x"}, extras \in GuiAdditionalAccounts :
         StartProcessing(email, "pw", extras)
    \/ RunBegin
    \/ InitialLogin
    \/ LoopHead
    \/ CooldownRemaining
    \/ CooldownWake
    \/ StopCheck
    \/ Probe
    \/ CooldownPolicy
    \/ ErrorRotation
    \/ SaveAndFinish
    \/ StopProcessing
    \/ Tick

Spec == Init /\ [][Next]_vars

(***************************************************************************)
(* The credential store on its own: the calls set_credentials,             *)
(* add_additional_account and _switch_to_next_account on a checker that is *)
(* not running, with more accounts and passwords, and run up to the end of *)
(* its preamble (line 924), after which the checker can be configured and  *)
(* run again.  The usage counter starts at any value a run can have left.  *)
(***************************************************************************)
StoreInit == \E checked \in 0..MaxChecked : InitWith(checked)

\* _switch_to_next_account, lines 622-647, called on the checker
SwitchToNextAccountCall ==
    /\ pc = "idle"
    /\ consecutive_error_count <= MaxSwitchErrors
    /\ \E c \in Rotations(Context) : Commit(c)
    /\ UNCHANGED <<logvars, guivars,
                   cfgvars, accounts, primary_email, primary_password, bufvars,
                   histvars, running, should_stop, rate_limit_cooldown_until,
                   pc, link_index, result, sleep_remaining, site, saved,
                   gui_completed>>

\* lines 916 and 924: run returns, the thread ends
RunReturns ==
    /\ pc = "done"
    /\ pc' = "idle"
    /\ UNCHANGED <<logvars, guivars,
                   cfgvars, storevars, bufvars, sessvars, histvars, running,
                   should_stop, rate_limit_cooldown_until,
                   consecutive_error_count, link_index, result,
                   sleep_remaining, site, saved, gui_completed>>

StoreNext ==
    \/ \E email \in StoreEmails, password \in StorePasswords :
         SetCredentials(email, password)
    \/ \E email \in StoreEmails, password \in StorePasswords :
         AddAdditionalAccount(email, password)
    \/ SwitchToNextAccountCall
    \/ Start
    \/ RunBegin
    \/ RunReturns

StoreSpec == StoreInit /\ [][StoreNext]_vars

(***************************************************************************)
(* The classifier on its own: runs of the checker with one account over an *)
(* input of two links, in which the remote site shows one page of          *)
(* ClassifyPages or lets the page load time out, so that each page is      *)
(* classified with the counter at 0 and after an earlier failure.          *)
(***************************************************************************)
ClassifyScenarios ==
    {[file |-> ProbeFile, site |-> {Shown(page), Raised(PageLoadTimeout)}] :
        page \in ClassifyPages}

ClassifyNext ==
    \/ SetCredentials("a@x", "pw")
    \/ Start
    \/ RunBeginOn(ClassifyScenarios)
    \/ InitialLogin
    \/ LoopHead
    \/ StopCheck
    \/ Probe
    \/ CooldownPolicy
    \/ SaveAndFinish

ClassifySpec == Init /\ [][ClassifyNext]_vars

(***************************************************************************)
(* The checker run more than once: run is called again on the same checker *)
(* after it has returned, over an input of two links and a remote site     *)
(* that shows each kind of page or lets the page load time out.            *)
(***************************************************************************)
RerunScenarios ==
    {[file |-> ProbeFile,
      site |-> {Shown(page) : page \in RunPages} \cup {Raised(PageLoadTimeout)}]}

\* line 1025 and the lines 916, 924, 935: run returns, and the checker is
\* free for another call of run
RunReturnsForRerun ==
    /\ Len(navigated) < MaxNavigated
    /\ RunReturns

RerunNext ==
    \/ SetCredentials("a@x", "pw")
    \/ Start
    \/ RunBeginOn(RerunScenarios)
    \/ InitialLogin
    \/ LoopHead
    \/ StopCheck
    \/ Probe
    \/ CooldownPolicy
    \/ SaveAndFinish
    \/ RunReturnsForRerun

RerunSpec == Init /\ [][RerunNext]_vars

(***************************************************************************)
(* The main window beside a run: the handlers of the main thread            *)
(* (start_processing, stop_gui_processing, process_completed, on_closing)   *)
(* interleaved with the run thread, over an input of two links and a remote *)
(* site that shows a working page or lets the page load time out.           *)
(***************************************************************************)
GuiScenarios ==
    {[file |-> ProbeFile, site |-> {Shown(WorkingPage), Raised(PageLoadTimeout)}]}

GuiInit == Init /\ gui

\* process_completed on the main thread, lines 1735-1788, run by the main
\* loop for the call the run thread posted (lines 1731-1733): the paths are
\* stored when given, the final status is read from checker.should_stop
ProcessCompleted ==
    /\ window = "open"
    /\ gui_completed.posted
    /\ status_info_label = ""
    /\ result_paths' = IF gui_completed.paths # Nothing
                       THEN gui_completed.paths ELSE result_paths
    /\ status_info_label' = "Status: " \o FinalStatus(should_stop)
    /\ UNCHANGED <<logvars, window,
                   cfgvars, storevars, bufvars, sessvars, histvars, running,
                   should_stop, rate_limit_cooldown_until,
                   consecutive_error_count, pc, link_index, result,
                   sleep_remaining, site, saved, gui_completed>>

\* on_closing, lines 1790-1806, up to the join of line 1797.  With
\* checker.running and the exit confirmed: stop_processing, then the join
\* when the run thread is alive, else the driver is quit when held and the
\* window destroyed.  Without checker.running: lines 1803-1806.
OnClosing ==
    /\ window = "open"
    /\ should_stop' = IF running THEN TRUE ELSE should_stop
    /\ stop_request' = IF running /\ ~stop_request.made
                       THEN [made |-> TRUE, pc |-> pc, link_index |-> link_index]
                       ELSE stop_request
    /\ IF running /\ ThreadAlive(pc)
       THEN /\ window' = "joining"
            /\ UNCHANGED sessvars
       ELSE /\ window' = "destroyed"
            /\ LET c == QuitDriver(Context)
               IN  /\ driver' = c.driver
                   /\ session' = c.session
                   /\ session_account' = c.session_account
                   /\ browsers' = c.browsers
    /\ UNCHANGED <<logvars, result_paths, status_info_label,
                   cfgvars, storevars, bufvars, navigated, recovery_failed_at,
                   errors_before_probe, error_streak, running,
                   rate_limit_cooldown_until, consecutive_error_count, pc,
                   link_index, result, sleep_remaining, site, saved,
                   gui_completed>>

\* on_closing, lines 1797-1800: join(timeout=5.0) returns, the run thread
\* having ended or the 5 seconds having passed with the thread wherever it
\* is; the driver is quit when held and the window destroyed
OnClosingAfterJoin ==
    /\ window = "joining"
    /\ window' = "destroyed"
    /\ LET c == QuitDriver(Context)
       IN  /\ driver' = c.driver
           /\ session' = c.session
           /\ session_account' = c.session_account
           /\ browsers' = c.browsers
    /\ UNCHANGED <<logvars, result_paths, status_info_label,
                   cfgvars, storevars, bufvars, histvars, running,
                   should_stop, rate_limit_cooldown_until,
                   consecutive_error_count, pc, link_index, result,
                   sleep_remaining, site, saved, gui_completed>>

\* The run thread, a daemon (line 1635), runs as long as the main loop of
\* the window does.
RunThread ==
    /\ window # "destroyed"
    /\ \/ RunBeginOn(GuiScenarios)
       \/ InitialLogin
       \/ LoopHead
       \/ StopCheck
       \/ Probe
       \/ CooldownPolicy
       \/ SaveAndFinish

\* The buttons are served by the main loop, which on_closing blocks and ends.
StartButton == window = "open" /\ StartProcessing("a@x", "pw", << >>)
StopButton == window = "open" /\ StopProcessing

GuiNext ==
    \/ StartButton
    \/ StopButton
    \/ RunThread
    \/ ProcessCompleted
    \/ OnClosing
    \/ OnClosingAfterJoin

GuiSpec == GuiInit /\ [][GuiNext]_vars

(***************************************************************************)
(* Logging: the loggers setup_logging configures, the records the run      *)
(* thread and the main thread log, the lines log_to_gui writes, and the     *)
(* polling cycle of the presentation layer.                                 *)
(***************************************************************************)
\* setup_logging, lines 402-435: the name and the handlers of the logger,
\* called without a queue or with one
setup_logging(with_queue) ==
    [name |-> IF with_queue THEN "GUILogger" ELSE "LinkedInCheckerApp",
     handlers |-> {"stream", "file"}
                  \cup (IF with_queue THEN {"queue"} ELSE {})]

\* line 1125: the logger of the presentation layer, with the QueueHandler
gui_logger == setup_logging(TRUE)

\* line 437: the logger every call of the run thread and of the handlers
\* goes to
main_file_logger == setup_logging(FALSE)

\* The records logged at lines 906 and 911 by the run thread and at line
\* 1639 by the main thread.
LogRecords ==
    {[thread |-> "run", levelname |-> "INFO",
      message |-> "Starting LinkedIn checking process..."],
     [thread |-> "run", levelname |-> "ERROR",
      message |-> "No accounts configured. Aborting."],
     [thread |-> "main", levelname |-> "ERROR",
      message |-> "Checker init failed"]}

\* logging.Formatter with the log_format of line 404, without the time, the
\* function and the line
Format(name, record) ==
    [thread |-> record.thread,
     text |-> record.levelname \o " | " \o name \o " | " \o record.message]

\* QueueHandler.emit, lines 399-400: put on the queue of line 1124, which
\* is constructed without maxsize and never blocks
emit(q, line) == Append(q, line)

\* A call of main_file_logger.info, .warning or .error: the record goes to
\* each handler of the logger
MainFileLoggerLogs(record) ==
    /\ Len(log_file) < MaxLogLines
    /\ LET line == Format(main_file_logger.name, record)
       IN  /\ log_file' = IF "file" \in main_file_logger.handlers
                          THEN Append(log_file, line) ELSE log_file
           /\ log_queue' = IF "queue" \in main_file_logger.handlers
                           THEN emit(log_queue, line) ELSE log_queue
    /\ UNCHANGED <<log_view, guivars,
                   cfgvars, storevars, bufvars, sessvars, histvars, running,
                   should_stop, rate_limit_cooldown_until,
                   consecutive_error_count, pc, link_index, result,
                   sleep_remaining, site, saved, gui_completed>>

\* log_to_gui, lines 1413-1428, called on the main thread with a level:
\* the line is written to the log view
LogToGui(message, level) ==
    /\ Len(log_view) < MaxLogLines
    /\ log_view' = Append(log_view, [thread |-> "main",
                                     text |-> level \o ": " \o message])
    /\ UNCHANGED <<log_queue, log_file, guivars,
                   cfgvars, storevars, bufvars, sessvars, histvars, running,
                   should_stop, rate_limit_cooldown_until,
                   consecutive_error_count, pc, link_index, result,
                   sleep_remaining, site, saved, gui_completed>>

\* check_log_queue, lines 1430-1439: every line on the queue is written to
\* the log view; the handler runs again after 100 ms
CheckLogQueue ==
    /\ log_view' = log_view \o log_queue
    /\ log_queue' = << >>
    /\ UNCHANGED <<log_file, guivars,
                   cfgvars, storevars, bufvars, sessvars, histvars, running,
                   should_stop, rate_limit_cooldown_until,
                   consecutive_error_count, pc, link_index, result,
                   sleep_remaining, site, saved, gui_completed>>

LogNext ==
    \/ \E record \in LogRecords : MainFileLoggerLogs(record)
    \/ \E message \in {"Starting processing...", "Attempting to stop process..."} :
         LogToGui(message, "INFO")
    \/ CheckLogQueue

LogSpec == GuiInit /\ [][LogNext]_vars

(***************************************************************************)
(* Properties.                                                             *)
(***************************************************************************)
\* A step of the run thread that leaves position p.
Leaves(p) == pc = p /\ pc' # p

\* The line numbers of the first k links of the input.
FirstLines(k) == [i \in 1..k |-> links_to_process[i].line_num]

\* The line numbers of the results in the JSON file.
PersistedLines == {saved.json_file[i].line_num : i \in 1..Len(saved.json_file)}

\* The stop request came between two iterations, after k links.
StoppedAfter(k) ==
    /\ stop_request.made
    /\ stop_request.pc = "loop"
    /\ stop_request.link_index = k + 1

(* C1: once should_stop is set no link is navigated to and no result is    *)
(* added to the buffers; a stop request made between two iterations, after *)
(* k links, takes the run thread from the loop head straight to the save   *)
(* and the end of run, and the JSON file then holds exactly the results of *)
(* the first k links (when its writing succeeds).                          *)
C1_StopEndsRun ==
    /\ [][should_stop =>
            /\ navigated' = navigated
            /\ working_links' = working_links
            /\ failed_links' = failed_links]_vars
    /\ [](\A k \in 0..MaxLinks :
            StoppedAfter(k) =>
              /\ pc \in {"loop", "save", "done", "crashed"}
              /\ navigated = FirstLines(k)
              /\ pc = "done" /\ saved.ran /\ saved.io = "ok" =>
                   /\ Len(saved.json_file) = k
                   /\ PersistedLines = {navigated[i] : i \in 1..k})

C1_Witness ==
    /\ StoppedAfter(2)
    /\ Len(links_to_process) = MaxLinks
    /\ pc = "done"
    /\ Len(saved.json_file) = 2

(* C2: a link is navigated to only when no cooldown window is set or the   *)
(* window has elapsed.                                                     *)
C2_NoProbeInCooldown ==
    [][navigated' # navigated =>
         \/ rate_limit_cooldown_until = Nothing
         \/ rate_limit_cooldown_until[1] <= 0]_vars

\* A probe has returned with a window set that had elapsed.
C2_Witness ==
    /\ pc = "policy"
    /\ result # Nothing /\ result[1].status # "CANCELLED"
    /\ rate_limit_cooldown_until = Some(0)

(* C3: a stop request made while the run thread is in the cooldown wait is *)
(* serviced during the wait: with should_stop set, the thread can leave    *)
(* the wait at once, whatever is left of it.                               *)
C3_StopServicedInWait ==
    (pc = "sleep" /\ should_stop /\ stop_request.pc = "sleep")
      => ENABLED (Next /\ pc' # "sleep")

\* The latest probe returned ERROR or RATE_LIMIT_SUSPECTED.
FailingStatus(r) == r.status \in {"ERROR", "RATE_LIMIT_SUSPECTED"}

\* A step that opens a cooldown window.
OpensCooldown ==
    /\ rate_limit_cooldown_until' # Nothing
    /\ \/ rate_limit_cooldown_until = Nothing
       \/ rate_limit_cooldown_until'[1] > rate_limit_cooldown_until[1]

(* C4, as stated: a window is opened only with the counter at 5 exactly,   *)
(* after 5 probes in a row that returned ERROR or RATE_LIMIT, and the      *)
(* counter never exceeds 5.                                                *)
C4_OpensAtFiveFailedProbes ==
    /\ [][OpensCooldown =>
            /\ consecutive_error_count = MAX_CONSECUTIVE_ERRORS_BEFORE_COOLDOWN
            /\ error_streak >= MAX_CONSECUTIVE_ERRORS_BEFORE_COOLDOWN]_vars
    /\ [](consecutive_error_count <= MAX_CONSECUTIVE_ERRORS_BEFORE_COOLDOWN)

(* C4, amended: a window is opened by the policy step that follows a probe *)
(* and by no other step, and that step opens one exactly when the counter  *)
(* is at least 5 (the counter also counts authwall results, and 5 for each *)
(* login that met "too many attempts", so it can pass 5).                  *)
C4_OpensWhenCounterAtLeastFive ==
    /\ [][OpensCooldown =>
            /\ pc = "policy"
            /\ consecutive_error_count >= MAX_CONSECUTIVE_ERRORS_BEFORE_COOLDOWN
            /\ rate_limit_cooldown_until' = Some(RATE_LIMIT_COOLDOWN_MINUTES)]_vars
    /\ [][Leaves("policy")
            /\ consecutive_error_count >= MAX_CONSECUTIVE_ERRORS_BEFORE_COOLDOWN
            => OpensCooldown]_vars

\* A window has just been opened after five failing probes in a row.
C4_Witness ==
    /\ pc \in {"loop", "errswitch"}
    /\ rate_limit_cooldown_until = Some(RATE_LIMIT_COOLDOWN_MINUTES)
    /\ error_streak = MAX_CONSECUTIVE_ERRORS_BEFORE_COOLDOWN
    /\ Len(navigated) = MAX_CONSECUTIVE_ERRORS_BEFORE_COOLDOWN

(* C5: when the counter is at 5 (or more) after a probe, the policy step   *)
(* opens a window of 5 minutes, sets the counter to 0 and goes on to one   *)
(* rotation if and only if more than one account is configured and the     *)
(* switch threshold is positive; the rotation moves to the next account.   *)
C5_CooldownPolicy ==
    /\ [][Leaves("policy")
            /\ consecutive_error_count >= MAX_CONSECUTIVE_ERRORS_BEFORE_COOLDOWN
            => /\ rate_limit_cooldown_until' = Some(RATE_LIMIT_COOLDOWN_MINUTES)
               /\ consecutive_error_count' = 0
               /\ pc' \in {"errswitch", "loop"}
               /\ pc' = "errswitch" <=>
                    Len(accounts) > 1 /\ account_switch_threshold > 0]_vars
    /\ [][Leaves("errswitch") =>
            /\ pc' = "loop"
            /\ current_account_index' =
                 (current_account_index + 1) % Len(accounts)
            /\ rate_limit_cooldown_until' = rate_limit_cooldown_until]_vars

\* Five timeouts or crashes in a row: the window is open, the counter is 0,
\* the rotation comes next.
C5_Witness ==
    /\ pc = "errswitch"
    /\ error_streak = MAX_CONSECUTIVE_ERRORS_BEFORE_COOLDOWN
    /\ rate_limit_cooldown_until = Some(RATE_LIMIT_COOLDOWN_MINUTES)
    /\ consecutive_error_count = 0

\* A FAILED result that settles the link: the offer is unavailable, the page
\* is a regular page, or the page reports an issue.
ConclusiveFailed(r) ==
    /\ r.status = "FAILED"
    /\ r.result_details \in
         {"Offer unavailable, expired, or already redeemed.",
          "Regular LinkedIn page, not a trial/gift.",
          "Page not found, content unavailable, or processing error."}

(* C6: after a probe that returned WORKING or a conclusive FAILED the      *)
(* counter is 0; after a probe that returned ERROR or RATE_LIMIT it is one *)
(* more than before the probe.                                             *)
C6_ResetOnConclusive ==
    pc = "policy" =>
      /\ result[1].status = "WORKING" \/ ConclusiveFailed(result[1])
           => consecutive_error_count = 0
      /\ FailingStatus(result[1])
           => consecutive_error_count = errors_before_probe + 1

\* A conclusive FAILED has reset a counter that was not 0.
C6_Witness ==
    /\ pc = "policy"
    /\ ConclusiveFailed(result[1])
    /\ errors_before_probe > 0
    /\ consecutive_error_count = 0

\* The FAILED result of line 799.
AuthwallFailed(r) ==
    /\ r.status = "FAILED"
    /\ r.result_details = "Authwall/Login required or session issue."

(* C7, as stated: a probe increases the counter if and only if it returned *)
(* ERROR or RATE_LIMIT; after any other result the counter is 0.           *)
C7_IncreaseOnlyOnErrorOrRateLimit ==
    pc = "policy" =>
      /\ consecutive_error_count > errors_before_probe
           <=> FailingStatus(result[1])
      /\ ~FailingStatus(result[1]) => consecutive_error_count = 0

(* C7, amended: a probe increases the counter (by one) if and only if it   *)
(* returned ERROR, RATE_LIMIT or the authwall FAILED; CANCELLED leaves the *)
(* counter as it was; WORKING and every other FAILED set it to 0.          *)
C7_CounterAfterProbe ==
    pc = "policy" =>
      /\ consecutive_error_count > errors_before_probe
           <=> FailingStatus(result[1]) \/ AuthwallFailed(result[1])
      /\ consecutive_error_count > errors_before_probe
           => consecutive_error_count = errors_before_probe + 1
      /\ result[1].status = "CANCELLED"
           => consecutive_error_count = errors_before_probe
      /\ (result[1].status = "WORKING"
            \/ (result[1].status = "FAILED" /\ ~AuthwallFailed(result[1])))
           => consecutive_error_count = 0

\* A cancelled probe has left a counter that was not 0 as it was.
C7_Witness ==
    /\ pc = "policy"
    /\ result[1].status = "CANCELLED"
    /\ errors_before_probe > 0
    /\ consecutive_error_count = errors_before_probe

(* C8: a link is navigated to only when the session is ACTIVE: a driver    *)
(* exists and the last login on it succeeded for the account at            *)
(* current_account_index.                                                  *)
C8_ProbeOnlyWhenActive ==
    [][navigated' # navigated =>
         /\ driver
         /\ session = "ACTIVE"
         /\ session_account = Some(current_account_index)]_vars

(* C9: with more than one account and a positive switch threshold T, no    *)
(* probe starts while links_checked_on_current_account >= T, and the       *)
(* counter never exceeds T.                                                *)
C9_RotatesAtThreshold ==
    Len(accounts) > 1 /\ account_switch_threshold > 0 =>
      /\ pc = "probe" =>
           links_checked_on_current_account < account_switch_threshold
      /\ links_checked_on_current_account <= account_switch_threshold

\* The third probe is about to start on the second account, after a
\* rotation on the threshold.
C9_Witness ==
    /\ pc = "probe"
    /\ Len(accounts) = 2
    /\ account_switch_threshold = 2
    /\ Len(navigated) = 2
    /\ links_checked_on_current_account = 0
    /\ current_account_index = 1

\* The result of line 884 for a crash of the browser.
CrashResult(r) ==
    r.status = "ERROR" /\ Contains(Lower(r.result_details), "target crashed")

\* The probe of link k ended with a crash of the browser.
CrashedAt(k) ==
    \E i \in 1..Len(failed_links) :
       /\ failed_links[i].line_num = links_to_process[k].line_num
       /\ CrashResult(failed_links[i])

(* C10: with a single account, a run that ends without a stop request and  *)
(* without a failed recovery has navigated to every link, those after a    *)
(* crash included; when the recovery after the crash of probe k fails, the *)
(* run ends with should_stop set, no link after k navigated to, no result  *)
(* after that of k, and the results of the probes before k in the JSON     *)
(* file (when its writing succeeds).                                       *)
C10_CrashRecovery ==
    Len(accounts) = 1 /\ pc = "done" /\ saved.ran =>
      /\ recovery_failed_at = 0 /\ ~should_stop
           => navigated = FirstLines(Len(links_to_process))
      /\ recovery_failed_at > 0 =>
           LET k == recovery_failed_at - 1
           IN  /\ should_stop
               /\ k >= 1 /\ CrashedAt(k)
               /\ navigated = FirstLines(k)
               /\ Len(working_links) + Len(failed_links) = k
               /\ saved.io = "ok" =>
                    {links_to_process[i].line_num : i \in 1..(k - 1)}
                      \subseteq PersistedLines

\* Crash on probe 3 of 5, the restart succeeds, probes 4 and 5 are made.
C10_Witness ==
    /\ Len(accounts) = 1
    /\ pc = "done"
    /\ Len(links_to_process) = 5
    /\ CrashedAt(3)
    /\ recovery_failed_at = 0
    /\ navigated = FirstLines(5)

\* Crash on probe 3 of 5, the restart fails, the first 2 results are saved.
C10_AbortReached ==
    /\ Len(accounts) = 1
    /\ pc = "done"
    /\ Len(links_to_process) = 5
    /\ CrashedAt(3)
    /\ recovery_failed_at = 4
    /\ saved.io = "ok"
    /\ {links_to_process[1].line_num, links_to_process[2].line_num}
         \subseteq PersistedLines

(* C11: an authentication failure leads to a rotation whenever another     *)
(* account is configured and ends the run only when there is none; at the  *)
(* initial login: the run is given up at the initial login, with the       *)
(* browser started and the login failed, only when no other account is     *)
(* configured.                                                             *)
C11_LoginFailureRotates ==
    [][Leaves("login") /\ pc' = "done"
         /\ gui_completed'.posted /\ gui_completed'.driver
         => Len(accounts) <= 1]_vars

\* The ERROR result of lines 878-881 and 888-892: a page-load timeout or an
\* exception that is no session crash.
OrdinaryError(r) ==
    /\ r.status = "ERROR"
    /\ \/ r.result_details = "Timeout loading page."
       \/ Contains(r.result_details, "Unexpected error: ")
       \/ Contains(r.result_details, "WebDriver error: ") /\ ~CrashResult(r)

\* The results recorded for the link of input line n.
ResultsFor(n) ==
    {i \in 1..Len(working_links) : working_links[i].line_num = n}
    \cup {-i : i \in {j \in 1..Len(failed_links) : failed_links[j].line_num = n}}

(* C12: a probe that ended in a timeout or an ordinary exception is         *)
(* recorded as one ERROR result, the last of failed_links and the only      *)
(* result of its link; it leaves the driver in place, the run running and   *)
(* should_stop as it was; and a run that ends without a stop request and    *)
(* without a failed recovery has a result for every link, whatever errors   *)
(* its probes met.                                                          *)
C12_ErrorsDoNotAbort ==
    /\ (pc = "policy" /\ OrdinaryError(result[1])) =>
         /\ failed_links # << >>
         /\ failed_links[Len(failed_links)] = result[1]
         /\ Cardinality(ResultsFor(result[1].line_num)) = 1
         /\ driver
         /\ running
         /\ should_stop => stop_request.made
         /\ recovery_failed_at = 0
    /\ (pc = "done" /\ saved.ran /\ ~stop_request.made /\ recovery_failed_at = 0) =>
         /\ ~should_stop
         /\ \A k \in 1..Len(links_to_process) :
              Cardinality(ResultsFor(links_to_process[k].line_num)) = 1

\* A run has ended after a timeout on its first link and an unexpected
\* exception on its second, with a result for each of its three links.
C12_Witness ==
    /\ pc = "done" /\ saved.ran /\ ~stop_request.made /\ recovery_failed_at = 0
    /\ Len(links_to_process) = 3
    /\ Len(failed_links) >= 2
    /\ failed_links[1].result_details = "Timeout loading page."
    /\ Contains(failed_links[2].result_details, "Unexpected error: ")
    /\ Len(working_links) = 1

(* C13: every run that was started ends with running = False and, with a   *)
(* presentation layer, with the completion posted: whenever the run thread *)
(* has ended, both are the case.                                           *)
C13_EndsWithCompletion ==
    pc \in {"done", "crashed"} =>
      /\ ~running
      /\ gui => gui_completed.posted

(* C14: the completion is posted only after the driver has been released   *)
(* and, when links were probed, after the results have been saved.         *)
C14_CompletionAfterRelease ==
    gui_completed.posted =>
      /\ ~gui_completed.driver
      /\ navigated # << >> => gui_completed.saved

\* A step that starts a run thread or configures a checker.
StartsRun ==
    \/ pc' = "start" /\ pc # "start"
    \/ cfgvars' # cfgvars
    \/ primary_email' # primary_email
    \/ primary_password' # primary_password

(* C15: while the thread of a run is alive no step starts a run thread or  *)
(* configures a checker: a start request made then changes nothing.        *)
C15_OneRunAtATime ==
    [][pc \notin {"idle", "done", "crashed"} => ~StartsRun]_vars

\* A run started by the presentation layer with two accounts is about to
\* probe, and a start request can be made.
C15_Witness ==
    /\ gui
    /\ pc = "probe"
    /\ Len(accounts) = 2
    /\ ENABLED StartProcessing("a@x", "pw", << >>)

(* C16: the final status is "Stopped by User" only when a stop was         *)
(* requested, and it is "Stopped by User" when the run ended with a stop   *)
(* request standing.                                                       *)
C16_StoppedOnlyByUser ==
    gui_completed.posted =>
      /\ gui_completed.status = "Stopped by User" => stop_request.made
      /\ stop_request.made /\ should_stop
           => gui_completed.status = "Stopped by User"

\* What n calls of _switch_to_next_account in a row can leave, from any of
\* the contexts cs.
RECURSIVE RotatedTimes(_, _)
RotatedTimes(cs, n) ==
    IF n = 0 THEN cs
    ELSE RotatedTimes(UNION {Rotations(c) : c \in cs}, n - 1)

(* C17: on a checker that is not running, for a store of N >= 1 accounts   *)
(* and a valid index, N rotations in a                                     *)
(* row bring current_account_index back to its value, whatever the driver  *)
(* setups and logins inside them do; with N > 1 one rotation moves the     *)
(* index to (index + 1) mod N and sets the usage counter to 0; with        *)
(* N <= 1 it changes nothing and returns True.                             *)
C17_RotationIsCyclic ==
    /\ [](pc = "idle" /\ Len(accounts) >= 1
              /\ IndexInBounds(accounts, current_account_index)
            => \A c \in RotatedTimes({Context}, Len(accounts)) :
                  c.index = current_account_index)
    /\ [](pc = "idle" /\ Len(accounts) <= 1
            => \A c \in Rotations(Context) : c.ok)
    /\ [][SwitchToNextAccountCall =>
            IF Len(accounts) > 1
            THEN /\ current_account_index' =
                      (current_account_index + 1) % Len(accounts)
                 /\ links_checked_on_current_account' = 0
            ELSE UNCHANGED vars]_vars

\* Two rotations on a store of three accounts, the second with a usage
\* counter that was not 0: the index is at the third account.
C17_Witness ==
    /\ Len(accounts) = 3
    /\ current_account_index = 2
    /\ links_checked_on_current_account = 0
    /\ session_account = Some(2)

\* The store as a call set_credentials(email, password) leaves it.
PrimaryIs(email, password) ==
    /\ primary_email = email
    /\ primary_password = password
    /\ current_account_index = 0
    /\ accounts # << >>
    /\ accounts[1] = Account(email, password)

\* The entries of accs for other emails than email, in their order.
Others(accs, email) == SelectSeq(accs, LAMBDA acc : acc.email # email)

(* C18: a call set_credentials(email, password) with both non-empty makes  *)
(* the account the primary, at index 0, with current_account_index 0 and   *)
(* the other entries in the order they had; made on the store such a call  *)
(* left, it changes nothing, so k calls leave what one call leaves; a call *)
(* with an empty email or password changes nothing.                        *)
C18_SetCredentialsIdempotent ==
    [][\A email \in StoreEmails, password \in StorePasswords :
         SetCredentials(email, password) =>
           IF email = "" \/ password = ""
           THEN UNCHANGED vars
           ELSE /\ PrimaryIs(email, password)'
                /\ Others(accounts', email) = Others(accounts, email)
                /\ Len(accounts') = Len(Others(accounts, email)) + 1
                /\ PrimaryIs(email, password) => UNCHANGED vars]_vars

\* b@x has been made the primary of a store of three accounts, with a new
\* password; the same call can be made again.
C18_Witness ==
    /\ PrimaryIs("b@x", "pw2")
    /\ Len(accounts) = 3
    /\ accounts[2].email = "c@x"
    /\ accounts[3].email = "a@x"
    /\ ENABLED SetCredentials("b@x", "pw2")

\* No two entries of the account list share their email.
UniqueEmails(accs) ==
    \A i, j \in 1..Len(accs) : accs[i].email = accs[j].email => i = j

\* Some entry of accs has the email.
Present(accs, email) == \E i \in 1..Len(accs) : accs[i].email = email

(* C19, as stated: no two entries share their email, and a call of         *)
(* add_additional_account leaves the account list as it is when the email  *)
(* is empty, is the primary email or is present, and with the account      *)
(* appended otherwise.                                                     *)
C19_AddAppendsUnlessEmailKnown ==
    /\ UniqueEmails(accounts)
    /\ pc = "idle" =>
         \A email \in StoreEmails, password \in StorePasswords :
            ENABLED (/\ AddAdditionalAccount(email, password)
                     /\ accounts' =
                          IF \/ email = ""
                             \/ email = primary_email
                             \/ Present(accounts, email)
                          THEN accounts
                          ELSE Append(accounts, Account(email, password)))

(* C19, amended: no two entries share their email, and a call of           *)
(* add_additional_account leaves the account list as it is when the email  *)
(* or the password is empty, or the email is the primary email or is       *)
(* present, and with the account appended at the end, the other entries    *)
(* staying as they are, otherwise.                                         *)
C19_AddAppendsUnlessKnownOrEmpty ==
    /\ UniqueEmails(accounts)
    /\ pc = "idle" =>
         \A email \in StoreEmails, password \in StorePasswords :
            ENABLED (/\ AddAdditionalAccount(email, password)
                     /\ accounts' =
                          IF \/ email = "" \/ password = ""
                             \/ email = primary_email
                             \/ Present(accounts, email)
                          THEN accounts
                          ELSE Append(accounts, Account(email, password)))

\* Three accounts: c@x added before the primary a@x was set, b@x after.
C19_Witness ==
    /\ Len(accounts) = 3
    /\ primary_email = "a@x"
    /\ accounts[1].email = "a@x"
    /\ accounts[2].email = "c@x"
    /\ accounts[3] = Account("b@x", "pw2")
    /\ UniqueEmails(accounts)

(* C20: when run has passed its preamble with a primary credential set,    *)
(* current_account_index is 0 and the account at index 0 is the primary    *)
(* email with the primary password.                                        *)
C20_PrimaryFirstAtRunStart ==
    pc = "login" /\ primary_email # None =>
      /\ current_account_index = 0
      /\ accounts # << >>
      /\ accounts[1] = Account(primary_email, primary_password)

\* The checker runs again, after an earlier run and a rotation to its third
\* account; c@x was added first and a@x made the primary last.
C20_Witness ==
    /\ pc = "login"
    /\ gui_completed.posted
    /\ session_account = Some(2)
    /\ primary_email = "a@x"
    /\ Len(accounts) = 3
    /\ accounts[2].email = "c@x"
    /\ current_account_index = 0

(* C21: in every state in which the account list is not empty,             *)
(* 0 <= current_account_index < Len(accounts), also in the middle of a     *)
(* rotation (after line 627), so that _get_current_creds never reaches its *)
(* out-of-bounds branch (lines 562-568).                                   *)
C21_IndexInBounds ==
    accounts # << >> =>
      /\ 0 <= current_account_index
      /\ current_account_index < Len(accounts)
      /\ IndexAfterCurrentCreds(accounts, current_account_index)
           = current_account_index
      /\ pc = "idle" =>
           \A c \in Rotations(Context) : 0 <= c.index /\ c.index < Len(accounts)

\* A rotation from the last of three accounts has wrapped around to the
\* first and logged it in.
C21_Witness ==
    /\ Len(accounts) = 3
    /\ current_account_index = 0
    /\ session_account = Some(0)
    /\ links_checked_on_current_account = 0
    /\ pc = "idle"

\* The pages the remote site of this run shows.
ShownPages == {o.page[1] : o \in {x \in site : x.page # Nothing}}

\* The probe whose result is being accounted read this page.
PageProbed(page) ==
    /\ pc = "policy"
    /\ result # Nothing
    /\ result[1].final_url = page.url
    /\ page \in ShownPages

\* The text holds one of the phrases, in any case and with any of the
\* apostrophes.
Mentions(text, phrases) ==
    \E kw \in phrases : Contains(NormalizeApostrophes(Lower(text)), kw)

\* Step 1 fires for the page: a rate-limit keyword in its title or source.
RateLimitStep(page) ==
    \/ Mentions(page.title, rate_limit_keywords)
    \/ Mentions(page.source, rate_limit_keywords)

\* Step 2 fires for the page: its final URL is an authwall or login URL.
AuthwallStep(page) ==
    \E kw \in {"authwall", "login.", "/login"} : Contains(page.url, kw)

\* The working-offer signals of a page: URL pattern, query parameter, trial
\* text, title, action button.
Signals(page) ==
    [url |-> \E kw \in gift_redeem_url_patterns : Contains(Lower(page.url), kw),
     param |-> \E kw \in gift_redeem_query_params : Contains(page.url, kw),
     text |-> Mentions(page.source, trial_keywords_on_page),
     title |-> Mentions(page.title, {"premium", "gift", "trial"}),
     button |-> /\ ~page.find_raises
                /\ \E i \in 1..Len(page.buttons) :
                      Mentions(page.buttons[i], action_button_keywords)]

(* C22: a probe that reads a page whose source holds an offer-unavailable  *)
(* phrase, with no rate-limit keyword in title or source and a final URL   *)
(* that is no authwall or login URL, returns FAILED as offer unavailable,  *)
(* whatever the working-offer signals of the page are.                     *)
C22_UnavailableWins ==
    \A page \in ShownPages :
       /\ PageProbed(page)
       /\ Mentions(page.source, offer_unavailable_keywords)
       /\ ~RateLimitStep(page)
       /\ ~AuthwallStep(page)
       => /\ result[1].status = "FAILED"
          /\ result[1].result_details
               = "Offer unavailable, expired, or already redeemed."
          /\ working_links = << >> \/ working_links[Len(working_links)] # result[1]

\* The second probe of a run read a page with the expired phrase and every
\* working-offer signal, and returned FAILED.
C22_Witness ==
    /\ pc = "policy"
    /\ link_index = 2
    /\ result[1].status = "FAILED"
    /\ \E page \in ShownPages :
          /\ PageProbed(page)
          /\ Mentions(page.source, offer_unavailable_keywords)
          /\ \A k \in DOMAIN Signals(page) : Signals(page)[k]

\* The result of a probe that found the offer expired, with the counter
\* reset.
ExpiredResult ==
    /\ result[1].status = "FAILED"
    /\ Contains(result[1].result_details, "expired")
    /\ consecutive_error_count = 0

(* C23, as stated: a probe that reads a page whose source holds "this      *)
(* offer has expired", with no rate-limit keyword in title or source,      *)
(* returns FAILED with details that mention "expired" and leaves           *)
(* consecutive_error_count at 0.                                           *)
C23_ExpiredIsFailed ==
    \A page \in ShownPages :
       /\ PageProbed(page)
       /\ Mentions(page.source, {"this offer has expired"})
       /\ ~RateLimitStep(page)
       => ExpiredResult

(* C23, amended: a probe that reads a page whose source holds "this offer  *)
(* has expired", with no rate-limit keyword in title or source and a final *)
(* URL that is no authwall or login URL, returns FAILED with details that  *)
(* mention "expired" and leaves consecutive_error_count at 0, whatever the *)
(* counter was before.                                                     *)
C23_ExpiredIsFailedUnlessAuthwall ==
    \A page \in ShownPages :
       /\ PageProbed(page)
       /\ Mentions(page.source, {"this offer has expired"})
       /\ ~RateLimitStep(page)
       /\ ~AuthwallStep(page)
       => ExpiredResult

\* The second probe of a run, after a timeout of the first, read the
\* expired phrase in capitals: the counter went from 1 to 0.
C23_Witness ==
    /\ pc = "policy"
    /\ link_index = 2
    /\ errors_before_probe = 1
    /\ ExpiredResult
    /\ \E page \in ShownPages :
          /\ PageProbed(page)
          /\ page.source = "This Offer Has Expired. Start free trial"

\* The page passes steps 1 to 3 of the classifier and reaches the
\* working-offer signals.
ReachesSignals(page) ==
    /\ ~RateLimitStep(page)
    /\ ~AuthwallStep(page)
    /\ ~Mentions(page.source, offer_unavailable_keywords)

(* C24: a probe that reads a page whose final URL matches a redeem, claim  *)
(* or gift path pattern and carries a redeem, claim or gift query          *)
(* parameter, and that no earlier step classifies, returns WORKING with    *)
(* confidence HIGH, whatever the trial text, the title and the buttons of  *)
(* the page are; every path pattern holds one of the URL keywords that     *)
(* line 840 asks for, so that this is so for every such URL.               *)
C24_UrlAndParamIsHigh ==
    /\ \A patt \in gift_redeem_url_patterns :
          \E kw \in qualifying_url_keywords : Contains(patt, kw)
    /\ \A page \in ShownPages :
          /\ PageProbed(page)
          /\ ReachesSignals(page)
          /\ Signals(page).url
          /\ Signals(page).param
          => /\ result[1].status = "WORKING"
             /\ result[1].confidence = "HIGH"

\* The URL extracted from the line "check this: https://..." was probed
\* and its final URL had both signals and nothing else: no trial text, no
\* title keyword, no button.
C24_Witness ==
    /\ pc = "policy"
    /\ result[1].link = "https://www.linkedin.com/gifts/claim?giftId=55"
    /\ result[1].line_num = 1
    /\ result[1].confidence = "HIGH"
    /\ \E page \in ShownPages :
          /\ PageProbed(page)
          /\ Signals(page) = [url |-> TRUE, param |-> TRUE, text |-> FALSE,
                              title |-> FALSE, button |-> FALSE]

\* A positive confidence path of step 4: the URL signal, the query
\* parameter signal, or the trial text with a premium or checkout URL.
PositivePath(page) ==
    \/ Signals(page).url
    \/ Signals(page).param
    \/ /\ Signals(page).text
       /\ \E kw \in {"premium", "checkout"} : Contains(Lower(page.url), kw)

(* C25: a probe that reads a page which no earlier step classifies and     *)
(* which has a positive confidence path returns WORKING and leaves         *)
(* consecutive_error_count at 0; with the query parameter signal and       *)
(* without the URL signal the confidence is MEDIUM.                        *)
C25_PositivePathIsWorking ==
    \A page \in ShownPages :
       /\ PageProbed(page)
       /\ ReachesSignals(page)
       /\ PositivePath(page)
       => /\ result[1].status = "WORKING"
          /\ consecutive_error_count = 0
          /\ Signals(page).param /\ ~Signals(page).url
               => result[1].confidence = "MEDIUM"

(* C26: a probe that reads a page with a rate-limit keyword in its title   *)
(* or in its source returns RATE_LIMIT_SUSPECTED, whatever the final URL,  *)
(* the unavailable phrases and the working-offer signals of the page are,  *)
(* and leaves consecutive_error_count one above its value before the       *)
(* probe.                                                                  *)
C26_RateLimitFirst ==
    \A page \in ShownPages :
       /\ PageProbed(page)
       /\ RateLimitStep(page)
       => /\ result[1].status = "RATE_LIMIT_SUSPECTED"
          /\ consecutive_error_count = errors_before_probe + 1

\* The second probe of a run, after a timeout of the first, read a login
\* page with the keyword in its title only and the expired phrase in its
\* source: the counter went from 1 to 2.
C26_Witness ==
    /\ pc = "policy"
    /\ link_index = 2
    /\ errors_before_probe = 1
    /\ consecutive_error_count = 2
    /\ result[1].status = "RATE_LIMIT_SUSPECTED"
    /\ \E page \in ShownPages :
          /\ PageProbed(page)
          /\ AuthwallStep(page)
          /\ Signals(page).url
          /\ Mentions(page.source, offer_unavailable_keywords)
          /\ ~Mentions(page.source, rate_limit_keywords)

\* The pages that agree with page on final URL, title and page source.
SameObservation(page) ==
    {q \in ClassifyPages :
        q.url = page.url /\ q.title = page.title /\ q.source = page.source}

(* C27: two probes that read the same final URL, the same title and the    *)
(* same page source return the same status and the same confidence,        *)
(* whatever buttons find_elements returns to each of them.                 *)
C27_DeterministicInObservation ==
    \A page \in ShownPages :
       PageProbed(page) =>
         \A q \in SameObservation(page) :
            /\ ClassifyPage(q).status = result[1].status
            /\ ClassifyPage(q).confidence = result[1].confidence

(* C28: total_processed is the number of results in the working buffer     *)
(* plus the number in the failed/other buffer; the working buffer holds    *)
(* WORKING results only and the failed/other buffer none; the JSON file,   *)
(* once written, has one entry per processed link.                         *)
C28_OneResultPerLink ==
    /\ stats.total_processed = Len(working_links) + Len(failed_links)
    /\ \A i \in 1..Len(working_links) : working_links[i].status = "WORKING"
    /\ \A i \in 1..Len(failed_links) : failed_links[i].status # "WORKING"
    /\ "json_file" \in saved.written
         => Len(saved.json_file) = stats.total_processed

\* The four counters of the run statistics.
Counters ==
    {"total_processed", "working_found", "failed_or_invalid",
     "rate_limit_suspected"}

(* C29: when run has passed its preamble (lines 895-924) the four counters *)
(* are 0, also in a second run of the same checker, and no other step      *)
(* decreases any of them.                                                  *)
C29_StatsResetAndMonotonic ==
    /\ [][Leaves("start") => \A k \in Counters : stats'[k] = 0]_vars
    /\ [][pc # "start" => \A k \in Counters : stats'[k] >= stats[k]]_vars

\* The second run of a checker, whose first run had counted a working
\* link and a suspected rate limit, has counted a failed link.
C29_Witness ==
    /\ pc = "policy"
    /\ saved.ran
    /\ Len(saved.working_file) = 1
    /\ Len(saved.json_file) = 2
    /\ saved.json_file[2].status = "RATE_LIMIT_SUSPECTED"
    /\ stats = [total_processed |-> 1, working_found |-> 0,
                failed_or_invalid |-> 1, rate_limit_suspected |-> 0]

\* The input file is missing or none of its lines holds a URL.
NoUrlIn(file) ==
    \/ ~file.exists
    \/ \A i \in 1..Len(file.lines) : ExtractUrl(Strip(file.lines[i])) = None

(* C30: run, called on a checker without any credential, or with an input  *)
(* file that is missing or holds no URL, returns from its preamble: the    *)
(* run is over, running is False, no driver is set up, no login is made,   *)
(* no link is navigated to, and the counters are 0 and the two result      *)
(* buffers empty.                                                          *)
C30_AbortsBeforeProbing ==
    pc = "start" =>
      \A scenario \in Scenarios :
         (accounts = << >> /\ primary_email = None) \/ NoUrlIn(scenario.file)
         => /\ ENABLED RunBeginOn({scenario})
            /\ ~ENABLED (/\ RunBeginOn({scenario})
                         /\ ~ /\ pc' = "done"
                              /\ running' = FALSE
                              /\ driver' = FALSE
                              /\ browsers' = browsers
                              /\ session' = session
                              /\ navigated' = navigated
                              /\ stats' = ZeroStats
                              /\ working_links' = << >>
                              /\ failed_links' = << >>)

\* A run with two accounts on an input without a URL has returned and the
\* presentation layer has its completion.
C30_Witness ==
    /\ pc = "done"
    /\ Len(accounts) = 2
    /\ links_to_process = << >>
    /\ ~running
    /\ browsers = 0
    /\ session = "UNINITIALIZED"
    /\ navigated = << >>
    /\ stats = ZeroStats
    /\ gui_completed.posted

\* The ERROR result of a probe whose exception told that the browser had
\* crashed, was disconnected or had its session deleted.
SessionCrashResult(r) ==
    /\ r.status = "ERROR"
    /\ Contains(r.result_details, "WebDriver error: ")
    /\ \E kw \in {"target crashed", "session deleted", "disconnected"} :
          Contains(Lower(r.result_details), kw)

\* The ERROR result of a probe that raised any other exception.
OtherExceptionResult(r) ==
    /\ r.status = "ERROR"
    /\ r.final_url = None
    /\ r.result_details # "WebDriver not available"
    /\ ~SessionCrashResult(r)

(* C34: a probe that raised a crash, disconnect or deleted-session         *)
(* exception leaves no driver, is recorded as ERROR, the last of           *)
(* failed_links, and adds 1 to consecutive_error_count; a probe that       *)
(* raised another exception leaves the driver in place; a link is          *)
(* navigated to only with a driver; and the loop head that finds no driver *)
(* either goes on with a driver on which a login was attempted, or ends    *)
(* the loop with should_stop set.                                          *)
C34_CrashTearsDownAndRestarts ==
    /\ [](pc = "policy" /\ SessionCrashResult(result[1]) =>
            /\ ~driver
            /\ session = "UNINITIALIZED"
            /\ failed_links[Len(failed_links)] = result[1]
            /\ consecutive_error_count = errors_before_probe + 1)
    /\ [](pc = "policy" /\ OtherExceptionResult(result[1]) => driver)
    /\ [][navigated' # navigated => driver]_vars
    /\ [][Leaves("loop") /\ ~driver /\ pc' \notin {"save", "cooldown"} =>
            /\ pc' = "stopcheck"
            /\ driver'
            /\ browsers' = browsers + 1
            /\ session' \in {"ACTIVE", "FAILED"}]_vars
    /\ [][Leaves("loop") /\ ~driver /\ pc' = "save"
            /\ link_index <= Len(links_to_process) /\ ~should_stop =>
            /\ should_stop'
            /\ recovery_failed_at' = link_index]_vars

\* The probe of link 2 has raised "target crashed", the next loop head has
\* started a browser and logged in, and link 3 has been navigated to.
C34_Witness ==
    /\ pc = "policy"
    /\ link_index = 3
    /\ Len(failed_links) >= 1
    /\ \E i \in 1..Len(failed_links) :
          /\ failed_links[i].line_num = links_to_process[2].line_num
          /\ SessionCrashResult(failed_links[i])
    /\ Len(navigated) = 3
    /\ driver
    /\ session = "ACTIVE"
    /\ browsers = 1

(* C35: at most one browser is alive, it is the one the checker holds, a   *)
(* browser is started only while none is held, and none is alive once the  *)
(* run thread has ended.                                                   *)
C35_OneDriverReleasedAtEnd ==
    /\ [](browsers <= 1)
    /\ [](driver <=> browsers = 1)
    /\ [][browsers' > browsers => browsers' = 1]_vars
    /\ [](pc \in {"done", "crashed"} => ~driver /\ browsers = 0)

(* C36: the links navigated to are, in order, the first links of the file, *)
(* each once; a navigation is always to the link of the current iteration, *)
(* with every earlier link navigated to before it, also after cooldowns,   *)
(* rotations and restarts of the browser; and when the loop has no link    *)
(* left, total_processed is the number of links read and, without a stop,  *)
(* every link has been navigated to.                                       *)
C36_SequentialInFileOrder ==
    /\ [](/\ Len(navigated) <= Len(links_to_process)
          /\ navigated = FirstLines(Len(navigated)))
    /\ [][navigated' # navigated =>
            /\ Len(navigated) = link_index - 1
            /\ navigated' =
                 Append(navigated, links_to_process[link_index].line_num)
            /\ link_index' = link_index]_vars
    /\ [][link_index' # link_index /\ pc # "start" =>
            /\ pc \in {"policy", "errswitch"}
            /\ link_index' = link_index + 1]_vars
    /\ [](pc \in {"save", "done"} /\ link_index > Len(links_to_process) =>
            /\ stats.total_processed = Len(links_to_process)
            /\ ~should_stop => navigated = FirstLines(Len(links_to_process)))

\* A run over the longest file has ended with every link probed, after a
\* cooldown, a rotation and a restart of the browser.
C36_Witness ==
    /\ pc = "done"
    /\ ~should_stop
    /\ Len(links_to_process) = MaxLinks
    /\ Len(navigated) = MaxLinks
    /\ stats.total_processed = MaxLinks
    /\ current_account_index = 1
    /\ \E k \in 1..MaxLinks : CrashedAt(k)

(* C37: a stop request made once the run thread was started, even before   *)
(* its first statement, is never lost: should_stop stays set from the      *)
(* request on, and after the request no link is navigated to.              *)
C37_StopNeverLost ==
    /\ [](stop_request.made => should_stop)
    /\ [][stop_request.made => navigated' = navigated]_vars

\* The number of RATE_LIMIT_SUSPECTED results recorded in failed_links.
RateLimitResults ==
    Cardinality({i \in 1..Len(failed_links) :
                    failed_links[i].status = "RATE_LIMIT_SUSPECTED"})

\* The number of probes that returned CANCELLED: they are counted in
\* total_processed and recorded in no buffer.
CancelledResults ==
    stats.total_processed - Len(working_links) - Len(failed_links)

(* C39: after every iteration rate_limit_suspected is the number of        *)
(* RATE_LIMIT_SUSPECTED results recorded, and total_processed is the sum   *)
(* of working_found, failed_or_invalid, rate_limit_suspected and the       *)
(* number of CANCELLED results.                                            *)
C39_StatsPartition ==
    pc \in {"policy", "loop", "save", "done"} =>
      /\ stats.rate_limit_suspected = RateLimitResults
      /\ stats.total_processed =
           stats.working_found + stats.failed_or_invalid
             + stats.rate_limit_suspected + CancelledResults

(* C38: the paths the completion notification carries are the paths        *)
(* _save_results wrote its files to.                                       *)
C38_NotifiedPathsAreSavedPaths ==
    (pc = "done" /\ saved.ran /\ gui_completed.posted) =>
       gui_completed.paths = saved.paths

\* A step of a handler of the main thread: it changes the window or the
\* status label.
MainThreadStep ==
    window' # window \/ status_info_label' # status_info_label

\* A step of the run thread: it moves the thread on.
RunThreadStep == ThreadAlive(pc) /\ pc' # pc

(* C31: while the run thread is alive no handler of the main thread         *)
(* creates or releases the driver or changes the browser session, the       *)
(* result buffers or the statistics.                                        *)
C31_DriverOwnedByRunThread ==
    [][MainThreadStep /\ ThreadAlive(pc) =>
         UNCHANGED <<driver, session, session_account, browsers,
                     working_links, failed_links, stats>>]_vars

(* C32: no step of the run thread changes a field of the presentation      *)
(* layer: result_paths and the status label change only in handlers run by *)
(* the main thread.                                                        *)
C32_GuiStateOnlyOnMainThread ==
    [][RunThreadStep => UNCHANGED <<result_paths, status_info_label>>]_vars

\* The number of lines of sequence lines that the run thread logged.
RunLines(lines) ==
    Cardinality({i \in 1..Len(lines) : lines[i].thread = "run"})

\* The number of lines the run thread logged that the presentation layer
\* has not been given.
Undelivered == RunLines(log_file) - RunLines(log_view)

(* C33: every line the run thread logged is on the queue or has been       *)
(* delivered to the log view, and the number of undelivered lines stays    *)
(* below a capacity, here the number of lines logged in a burst.           *)
C33_LogLinesThroughBoundedQueue ==
    /\ RunLines(log_file) = RunLines(log_queue) + RunLines(log_view)
    /\ Len(log_queue) < MaxLogLines
    /\ Undelivered < MaxLogLines

=============================================================================
